---- MODULE Spec2Model ----
(***************************************************************************)
(* A model of the core of the personal accounting book: the SQLite store   *)
(* (core/database.py), the profile registry (core/profile_manager.py),     *)
(* the entry ledger (core/entry_manager.py), the category seeding          *)
(* (core/category_manager.py), and the CSV import and export pipelines     *)
(* (core/importer.py, core/exporter.py).                                   *)
(*                                                                         *)
(* Conventions.                                                            *)
(*  - A Python str is a sequence of symbols.  A symbol is a one-character  *)
(*    string (" ", "-", ".", "0".."9") or an opaque word standing for a    *)
(*    run of non-blank, non-digit characters ("food").  The Chinese        *)
(*    literals of the source are written as ASCII words:                   *)
(*       shouru  -> "Income"      zhichu   -> "Expense"                    *)
(*       riqi    -> "date"        leixing  -> "type"                       *)
(*       jine    -> "amount"      fenlei   -> "category"                   *)
(*       zifenlei-> "subcategory" beizhu   -> "note"                       *)
(*       yiji fenlei -> "category1"   erji fenlei -> "category2"           *)
(*  - An Optional value is a sequence of length at most one: None is <<>>  *)
(*    and a present value v is <<v>>.                                      *)
(*  - A datetime.date is a tuple <<year, month, day>>.                     *)
(*  - An amount (a Python float) is an integer number of thousandths.      *)
(***************************************************************************)
EXTENDS Integers, Sequences, FiniteSets, TLC

(***************************************************************************)
(* Bounds of the model.                                                    *)
(***************************************************************************)
MaxProfileId == 2
MaxEntryId == 2
MaxCategoryId == 50

(***************************************************************************)
(* Optional values.                                                        *)
(***************************************************************************)
None == <<>>

Some(v) == <<v>>

Get(o) == o[1]

(***************************************************************************)
(* Strings.                                                                *)
(***************************************************************************)
SP == " "

Digits == <<"0", "1", "2", "3", "4", "5", "6", "7", "8", "9">>

IsDigit(c) == \E i \in 1..10 : Digits[i] = c

DigitVal(c) == (CHOOSE i \in 1..10 : Digits[i] = c) - 1

\* The code point order of the symbols that occur in stored dates.
Ord(c) == IF c = "-" THEN 0 ELSE 1 + DigitVal(c)

RECURSIVE lstrip(_)
lstrip(s) == IF s /= <<>> /\ Head(s) = SP THEN lstrip(Tail(s)) ELSE s

RECURSIVE rstrip(_)
rstrip(s) ==
    IF s /= <<>> /\ s[Len(s)] = SP THEN rstrip(SubSeq(s, 1, Len(s) - 1)) ELSE s

\* str.strip()
strip(s) == rstrip(lstrip(s))

\* Python truthiness of an Optional[str]: None and "" are falsy.
Truthy(o) == o /= None /\ Get(o) /= <<>>

AllDigits(s) == \A i \in 1..Len(s) : IsDigit(s[i])

RECURSIVE ToNat(_)
ToNat(s) ==
    IF s = <<>> THEN 0 ELSE 10 * ToNat(SubSeq(s, 1, Len(s) - 1)) + DigitVal(s[Len(s)])

\* The decimal digits of n, at least w of them (zero padded): "%0wd".
RECURSIVE Pad(_, _)
Pad(n, w) ==
    IF n < 10 /\ w <= 1 THEN <<Digits[n + 1]>>
    ELSE Pad(n \div 10, w - 1) \o <<Digits[(n % 10) + 1]>>

\* s split at every occurrence of the symbol sep: str.split(sep).
RECURSIVE Split(_, _)
Split(s, sep) ==
    IF \A i \in 1..Len(s) : s[i] /= sep THEN <<s>>
    ELSE LET k == CHOOSE i \in 1..Len(s) :
                    s[i] = sep /\ \A j \in 1..(i - 1) : s[j] /= sep
         IN  <<SubSeq(s, 1, k - 1)>> \o Split(SubSeq(s, k + 1, Len(s)), sep)

\* SQLite's BINARY collation on TEXT: a < b byte by byte, a prefix first.
RECURSIVE TextLess(_, _)
TextLess(a, b) ==
    IF b = <<>> THEN FALSE
    ELSE IF a = <<>> THEN TRUE
    ELSE IF Head(a) /= Head(b) THEN Ord(Head(a)) < Ord(Head(b))
    ELSE TextLess(Tail(a), Tail(b))

TextLeq(a, b) == a = b \/ TextLess(a, b)

(***************************************************************************)
(* Dates.                                                                  *)
(***************************************************************************)
IsLeap(y) == (y % 4 = 0 /\ y % 100 /= 0) \/ y % 400 = 0

DaysInMonth(y, m) ==
    IF m = 2 THEN (IF IsLeap(y) THEN 29 ELSE 28)
    ELSE IF m \in {4, 6, 9, 11} THEN 30 ELSE 31

\* date.isoformat(): YYYY-MM-DD, zero padded.
isoformat(d) == Pad(d[1], 4) \o <<"-">> \o Pad(d[2], 2) \o <<"-">> \o Pad(d[3], 2)

\* date.fromisoformat() of a stored date.
fromisoformat(s) ==
    <<ToNat(SubSeq(s, 1, 4)), ToNat(SubSeq(s, 6, 7)), ToNat(SubSeq(s, 9, 10))>>

\* datetime.strptime(s, "%Y-%m-%d").date(): None when it raises ValueError.
\* %Y is exactly four digits, %m and %d one or two digits in range.
strptime(s) ==
    LET p == Split(s, "-") IN
    IF /\ Len(p) = 3
       /\ Len(p[1]) = 4 /\ AllDigits(p[1])
       /\ Len(p[2]) \in {1, 2} /\ AllDigits(p[2])
       /\ Len(p[3]) \in {1, 2} /\ AllDigits(p[3])
       /\ ToNat(p[1]) >= 1
       /\ ToNat(p[2]) \in 1..12
       /\ ToNat(p[3]) \in 1..DaysInMonth(ToNat(p[1]), ToNat(p[2]))
    THEN Some(<<ToNat(p[1]), ToNat(p[2]), ToNat(p[3])>>)
    ELSE None

\* The calendar order of two dates.
DateLess(a, b) ==
    \/ a[1] < b[1]
    \/ a[1] = b[1] /\ a[2] < b[2]
    \/ a[1] = b[1] /\ a[2] = b[2] /\ a[3] < b[3]

(***************************************************************************)
(* Amounts.                                                                *)
(***************************************************************************)
\* float(s): None when it raises ValueError.  The decimal literals
\* [+-]digits[.digits] with at most three decimals are modelled; any other
\* text is taken to raise.
float(s) ==
    LET neg  == s /= <<>> /\ Head(s) = "-"
        body == IF s /= <<>> /\ Head(s) \in {"-", "+"} THEN Tail(s) ELSE s
        p    == Split(body, ".")
        ip   == p[1]
        fp   == IF Len(p) = 2 THEN p[2] ELSE <<>>
        frac == ToNat(SubSeq(fp \o <<"0", "0", "0">>, 1, 3))
        mag  == 1000 * ToNat(ip) + frac
    IN  IF /\ Len(p) \in {1, 2}
           /\ AllDigits(ip) /\ AllDigits(fp)
           /\ Len(ip) + Len(fp) >= 1
           /\ Len(fp) <= 3
        THEN Some(IF neg THEN 0 - mag ELSE mag)
        ELSE None

\* f"{amount:.2f}" of a non-negative amount: rounded to hundredths, ties to
\* the even hundredth.  That is what Python prints for the amounts a float
\* holds exactly (the multiples of 0.125), which the inputs below are.
format2f(a) ==
    LET q == a \div 10
        r == a % 10
        c == IF r > 5 \/ (r = 5 /\ q % 2 = 1) THEN q + 1 ELSE q
    IN  Pad(c \div 100, 1) \o <<".">> \o Pad(c % 100, 2)

(***************************************************************************)
(* The state.                                                              *)
(*                                                                         *)
(* The tables are what the primary connection reads.  Every operation of   *)
(* the managers executes its statement and commits or rolls back before it *)
(* returns, so an action that models one call of a manager leaves no       *)
(* transaction open (txn stays None), and a second connection to the same  *)
(* database file reads the same tables.  Only the calls made on the        *)
(* Database object itself (execute, begin_transaction) leave one open.     *)
(***************************************************************************)
VARIABLES
    dbPath,        \* Database.db_path of the primary connection
    conn,          \* Database.conn of the primary connection: open, or closed (None)
    txn,           \* the transaction open on the connection in use (the primary
                   \* one, or the import's own while an import runs): None, or
                   \* the image of the tables a rollback restores
    profiles,      \* table profiles: rows [id, name, description]
    profileSeq,    \* AUTOINCREMENT counter of profiles
    categories,    \* table categories: rows [id, name, parent]
    categorySeq,   \* AUTOINCREMENT counter of categories
    entries,       \* table entries
    entrySeq,      \* AUTOINCREMENT counter of entries
    ret,           \* the last call: what it returned (for a query or an import,
                   \* with its arguments), or that it is running
    imp,           \* the import_from_csv call: its phase, arguments and locals
    exported,      \* the CSV last produced by the exporter and its profile, if any
    lock,          \* the write lock of the database file: None, or the
                   \* connection that holds it and the row it inserted and has
                   \* not committed
    call           \* the client's thread when an import runs in its worker
                   \* thread: where its add_entry is, and how its last call ended

vars ==
    <<dbPath, conn, txn, profiles, profileSeq, categories, categorySeq, entries, entrySeq,
      ret, imp, exported, lock, call>>

threads == <<lock, call>>

store == <<profiles, profileSeq, categories, categorySeq, entries, entrySeq>>

OPEN == "open"

CLOSED == "closed"

MEMORY == "memory"

DURABLE == "file"

INCOME == <<"Income">>

EXPENSE == <<"Expense">>

\* A connection on which PRAGMA foreign_keys was never executed.
foreign_keys_off == FALSE

\* PRAGMA foreign_keys = ON, executed by init_db on every connection the
\* program opens (the primary one and the import's own).
foreign_keys == TRUE

(***************************************************************************)
(* Profile registry.                                                       *)
(***************************************************************************)
get_profile(profile_id) ==
    IF \E p \in profiles : p.id = profile_id
    THEN Some(CHOOSE p \in profiles : p.id = profile_id)
    ELSE None

get_profile_by_name(name) ==
    IF \E p \in profiles : p.name = name
    THEN Some(CHOOSE p \in profiles : p.name = name)
    ELSE None

\* A cascade that does not look at profile_id: every entry goes.
CascadeDelete_all(profile_id) ==
    IF foreign_keys /\ get_profile(profile_id) /= None THEN {} ELSE entries

\* The rows left in entries after DELETE FROM profiles WHERE id = profile_id:
\* ON DELETE CASCADE acts only while foreign keys are enforced.
CascadeDelete(profile_id) ==
    IF foreign_keys /\ get_profile(profile_id) /= None
    THEN {e \in entries : e.profile_id /= profile_id}
    ELSE entries

(***************************************************************************)
(* Storage gateway: the methods of Database, called on the primary         *)
(* connection by a client that holds the object.  The connection is in     *)
(* sqlite3's default mode: an INSERT or a DELETE outside a transaction     *)
(* begins one, nothing commits but commit().  The statements are an INSERT *)
(* of a profile, the DELETE of a profile, a SELECT 1 and BEGIN.            *)
(***************************************************************************)
\* The tables and their AUTOINCREMENT counters, as a transaction sees them.
Tables ==
    [profiles |-> profiles, profileSeq |-> profileSeq,
     categories |-> categories, categorySeq |-> categorySeq,
     entries |-> entries, entrySeq |-> entrySeq]

\* A database without a row: what a connection to ":memory:" leaves when it
\* is closed.
NoTables ==
    [profiles |-> {}, profileSeq |-> 0, categories |-> {}, categorySeq |-> 0,
     entries |-> {}, entrySeq |-> 0]

INSERT == "INSERT"

DELETE == "DELETE"

SELECT == "SELECT"

BEGIN == "BEGIN"

\* The transaction the connection is in once a statement that writes has
\* run: the one that was open, or a new one begun before the statement.
ImplicitBegin == IF txn = None THEN Some(Tables) ELSE txn

\* Database.execute(sql, params): the outcome, the value returned (lastrowid
\* for an INSERT, else rowcount), the tables and the transaction after it.
execute(sql) ==
    IF conn /= OPEN
    THEN [outcome |-> "RuntimeError", value |-> None, tables |-> Tables, txn |-> txn]
    ELSE CASE sql.stmt = BEGIN ->
                 IF txn /= None
                 THEN [outcome |-> "OperationalError", value |-> None,
                       tables |-> Tables, txn |-> txn]
                 ELSE [outcome |-> "ok", value |-> Some(0 - 1),
                       tables |-> Tables, txn |-> Some(Tables)]
           [] sql.stmt = SELECT ->
                 [outcome |-> "ok", value |-> Some(0 - 1), tables |-> Tables, txn |-> txn]
           [] sql.stmt = INSERT ->
                 IF \E p \in profiles : p.name = sql.name
                 THEN [outcome |-> "IntegrityError", value |-> None,
                       tables |-> Tables, txn |-> ImplicitBegin]
                 ELSE [outcome |-> "ok", value |-> Some(profileSeq + 1),
                       tables |-> [Tables EXCEPT
                           !.profiles = @ \cup {[id |-> profileSeq + 1, name |-> sql.name,
                                                 description |-> <<>>]},
                           !.profileSeq = @ + 1],
                       txn |-> ImplicitBegin]
           [] sql.stmt = DELETE ->
                 [outcome |-> "ok",
                  value |-> Some(Cardinality({p \in profiles : p.id = sql.id})),
                  tables |-> [Tables EXCEPT
                      !.profiles = {p \in @ : p.id /= sql.id},
                      !.entries = CascadeDelete(sql.id)],
                  txn |-> ImplicitBegin]

\* Database.fetchall("SELECT * FROM profiles WHERE name = ?", (name,)): the
\* rows, or the error raised.
fetchall(name) ==
    IF conn /= OPEN
    THEN [outcome |-> "RuntimeError", value |-> None]
    ELSE [outcome |-> "ok",
          value |-> Some(IF get_profile_by_name(name) = None THEN <<>>
                         ELSE <<Get(get_profile_by_name(name))>>)]

\* Database.fetchone of the same query: the first row or None, or the error
\* raised.
fetchone(name) ==
    IF conn /= OPEN
    THEN [outcome |-> "RuntimeError", value |-> None]
    ELSE [outcome |-> "ok", value |-> Some(get_profile_by_name(name))]

\* Database.begin_transaction(): its own test of the connection, then
\* execute("BEGIN").
begin_transaction ==
    IF conn /= OPEN
    THEN [outcome |-> "RuntimeError", value |-> None, tables |-> Tables, txn |-> txn]
    ELSE [execute([stmt |-> BEGIN, name |-> <<>>, id |-> 0]) EXCEPT !.value = None]

\* Database.commit(): `if self.conn: self.conn.commit()`, returns None.
commit ==
    IF conn /= OPEN
    THEN [outcome |-> "ok", value |-> None, tables |-> Tables, txn |-> txn]
    ELSE [outcome |-> "ok", value |-> None, tables |-> Tables, txn |-> None]

\* Database.rollback(): `if self.conn: self.conn.rollback()`, returns None.
rollback ==
    IF conn /= OPEN
    THEN [outcome |-> "ok", value |-> None, tables |-> Tables, txn |-> txn]
    ELSE [outcome |-> "ok", value |-> None,
          tables |-> IF txn = None THEN Tables ELSE Get(txn), txn |-> None]

\* The tables a closed connection leaves behind: what was committed, in a
\* database file; nothing, in memory.
AfterClose ==
    IF dbPath = MEMORY THEN NoTables
    ELSE IF txn = None THEN Tables
    ELSE Get(txn)

\* The tables and the transaction become those of the result r.
Becomes(r) ==
    /\ profiles' = r.tables.profiles
    /\ profileSeq' = r.tables.profileSeq
    /\ categories' = r.tables.categories
    /\ categorySeq' = r.tables.categorySeq
    /\ entries' = r.tables.entries
    /\ entrySeq' = r.tables.entrySeq
    /\ txn' = r.txn

(***************************************************************************)
(* Profile registry: the operations.                                       *)
(***************************************************************************)
\* create_profile without the lookup of the name, on a table without
\* UNIQUE(name).
create_profile_unchecked(name, description) ==
    /\ profileSeq < MaxProfileId
    /\ LET row == [id |-> profileSeq + 1, name |-> name,
                   description |-> description]
       IN  /\ profiles' = profiles \cup {row}
           /\ profileSeq' = profileSeq + 1
           /\ ret' = [op |-> "create_profile", outcome |-> "ok",
                      value |-> Some(row)]

create_profile(name, description) ==
    IF get_profile_by_name(name) /= None
    THEN /\ ret' = [op |-> "create_profile", outcome |-> "ValueError", value |-> None]
         /\ UNCHANGED <<profiles, profileSeq>>
    ELSE /\ profileSeq < MaxProfileId
         /\ LET row == [id |-> profileSeq + 1, name |-> name,
                        description |-> description]
            IN  /\ profiles' = profiles \cup {row}
                /\ profileSeq' = profileSeq + 1
                /\ ret' = [op |-> "create_profile", outcome |-> "ok",
                           value |-> Some(row)]

delete_profile(profile_id) ==
    /\ profiles' = {p \in profiles : p.id /= profile_id}
    /\ entries' = CascadeDelete(profile_id)
    /\ ret' = [op |-> "delete_profile", outcome |-> "ok",
               value |-> Some(get_profile(profile_id) /= None)]

\* The row after UPDATE profiles SET <the supplied fields> WHERE id = row.id:
\* the name when it is truthy, the description when it is not None.
UpdatedProfile(row, name, description) ==
    [row EXCEPT
        !.name = IF Truthy(name) THEN Get(name) ELSE @,
        !.description = IF description /= None THEN Get(description) ELSE @]

\* update_profile without the lookup of the new name, on a table without
\* UNIQUE(name).
update_profile_unchecked(profile_id, name, description) ==
    IF ~Truthy(name) /\ description = None
      THEN /\ ret' = [op |-> "update_profile", outcome |-> "ok", value |-> Some(TRUE)]
           /\ UNCHANGED profiles
    ELSE /\ profiles' = {IF p.id = profile_id
                         THEN UpdatedProfile(p, name, description)
                         ELSE p : p \in profiles}
         /\ ret' = [op |-> "update_profile", outcome |-> "ok",
                    value |-> Some(get_profile(profile_id) /= None)]

\* The test of update_profile on a new name: it is the name of another
\* profile.
NameInUse(profile_id, name) ==
    /\ Truthy(name)
    /\ get_profile_by_name(Get(name)) /= None
    /\ Get(get_profile_by_name(Get(name))).id /= profile_id

\* update_profile: True at once when nothing is supplied; False when the new
\* name is the name of another profile (the ValueError is caught, after the
\* rollback); else the UPDATE, and whether it met a row.
update_profile(profile_id, name, description) ==
    IF ~Truthy(name) /\ description = None
      THEN /\ ret' = [op |-> "update_profile", outcome |-> "ok", value |-> Some(TRUE)]
           /\ UNCHANGED profiles
    ELSE IF NameInUse(profile_id, name)
      THEN /\ ret' = [op |-> "update_profile", outcome |-> "ok", value |-> Some(FALSE)]
           /\ profiles' = rollback.tables.profiles
    ELSE /\ profiles' = {IF p.id = profile_id
                         THEN UpdatedProfile(p, name, description)
                         ELSE p : p \in profiles}
         /\ ret' = [op |-> "update_profile", outcome |-> "ok",
                    value |-> Some(get_profile(profile_id) /= None)]

(***************************************************************************)
(* Entry ledger.                                                           *)
(***************************************************************************)
\* The Entry object built from a row (get_entry, get_entries).
EntryOf(row) == [row EXCEPT !.date = fromisoformat(row.date)]

get_entry(entry_id) ==
    IF \E e \in entries : e.id = entry_id
    THEN Some(EntryOf(CHOOSE e \in entries : e.id = entry_id))
    ELSE None

\* The constraints of table entries on a row: the CHECKs and the foreign key.
EntryRowOk(row) ==
    /\ row.type \in {INCOME, EXPENSE}
    /\ row.amount >= 0
    /\ foreign_keys => get_profile(row.profile_id) /= None

\* subcategory.strip() if subcategory else None
StripOrNone(o) == IF Truthy(o) THEN Some(strip(Get(o))) ELSE None

\* add_entry testing `not category` in place of `not category.strip()`.
add_entry_unstripped(profile_id, entry_date, entry_type, amount, category, subcategory, note) ==
    LET row == [id |-> entrySeq + 1, profile_id |-> profile_id,
                date |-> isoformat(entry_date), type |-> entry_type,
                amount |-> amount, category |-> strip(category),
                subcategory |-> StripOrNone(subcategory),
                note |-> StripOrNone(note)]
        same == [entries |-> entries, entrySeq |-> entrySeq, value |-> None]
    IN  IF entry_type \notin {INCOME, EXPENSE}
          THEN same @@ [outcome |-> "ValueError"]
        ELSE IF amount < 0
          THEN same @@ [outcome |-> "ValueError"]
        ELSE IF category = <<>>
          THEN same @@ [outcome |-> "ValueError"]
        ELSE IF ~EntryRowOk(row)
          THEN same @@ [outcome |-> "RuntimeError"]
        ELSE [entries |-> entries \cup {row}, entrySeq |-> entrySeq + 1,
              value |-> Some(EntryOf(row)), outcome |-> "ok"]

\* add_entry without the test of the amount: the INSERT meets the CHECK of
\* the table.
add_entry_amount_unchecked(profile_id, entry_date, entry_type, amount, category, subcategory, note) ==
    LET row == [id |-> entrySeq + 1, profile_id |-> profile_id,
                date |-> isoformat(entry_date), type |-> entry_type,
                amount |-> amount, category |-> strip(category),
                subcategory |-> StripOrNone(subcategory),
                note |-> StripOrNone(note)]
        same == [entries |-> entries, entrySeq |-> entrySeq, value |-> None]
    IN  IF entry_type \notin {INCOME, EXPENSE}
          THEN same @@ [outcome |-> "ValueError"]
        ELSE IF strip(category) = <<>>
          THEN same @@ [outcome |-> "ValueError"]
        ELSE IF ~EntryRowOk(row)
          THEN same @@ [outcome |-> "RuntimeError"]
        ELSE [entries |-> entries \cup {row}, entrySeq |-> entrySeq + 1,
              value |-> Some(EntryOf(row)), outcome |-> "ok"]

\* add_entry on the tables as they are: what it raises or returns, and the
\* entries table and counter it leaves.
add_entry(profile_id, entry_date, entry_type, amount, category, subcategory, note) ==
    LET row == [id |-> entrySeq + 1, profile_id |-> profile_id,
                date |-> isoformat(entry_date), type |-> entry_type,
                amount |-> amount, category |-> strip(category),
                subcategory |-> StripOrNone(subcategory),
                note |-> StripOrNone(note)]
        same == [entries |-> entries, entrySeq |-> entrySeq, value |-> None]
    IN  IF entry_type \notin {INCOME, EXPENSE}
          THEN same @@ [outcome |-> "ValueError"]
        ELSE IF amount < 0
          THEN same @@ [outcome |-> "ValueError"]
        ELSE IF strip(category) = <<>>
          THEN same @@ [outcome |-> "ValueError"]
        ELSE IF ~EntryRowOk(row)
          THEN same @@ [outcome |-> "RuntimeError"]
        ELSE [entries |-> entries \cup {row}, entrySeq |-> entrySeq + 1,
              value |-> Some(EntryOf(row)), outcome |-> "ok"]

\* delete_entry returning True whatever rows_affected is.
delete_entry_reports_true(entry_id) ==
    /\ entries' = {e \in entries : e.id /= entry_id}
    /\ ret' = [op |-> "delete_entry", outcome |-> "ok", value |-> Some(TRUE)]

delete_entry(entry_id) ==
    /\ entries' = {e \in entries : e.id /= entry_id}
    /\ ret' = [op |-> "delete_entry", outcome |-> "ok",
               value |-> Some(get_entry(entry_id) /= None)]

\* An UPDATE that sets the note whether or not one was supplied.
UpdatedRow_note_always(row, entry_date, entry_type, amount, category, subcategory, note) ==
    [row EXCEPT
        !.date = IF entry_date /= None THEN isoformat(Get(entry_date)) ELSE @,
        !.type = IF entry_type /= None THEN Get(entry_type) ELSE @,
        !.amount = IF amount /= None THEN Get(amount) ELSE @,
        !.category = IF category /= None THEN strip(Get(category)) ELSE @,
        !.subcategory = IF subcategory /= None THEN StripOrNone(subcategory) ELSE @,
        !.note = StripOrNone(note)]

\* The row after UPDATE entries SET <the supplied fields> WHERE id = row.id.
UpdatedRow(row, entry_date, entry_type, amount, category, subcategory, note) ==
    [row EXCEPT
        !.date = IF entry_date /= None THEN isoformat(Get(entry_date)) ELSE @,
        !.type = IF entry_type /= None THEN Get(entry_type) ELSE @,
        !.amount = IF amount /= None THEN Get(amount) ELSE @,
        !.category = IF category /= None THEN strip(Get(category)) ELSE @,
        !.subcategory = IF subcategory /= None THEN StripOrNone(subcategory) ELSE @,
        !.note = IF note /= None THEN StripOrNone(note) ELSE @]

\* update_entry without `if not update_fields: return True`, its UPDATE
\* setting the note whether or not one was supplied.
update_entry_no_early_return(entry_id, entry_date, entry_type, amount, category, subcategory, note) ==
    IF entry_type /= None /\ Get(entry_type) \notin {INCOME, EXPENSE}
      THEN /\ ret' = [op |-> "update_entry", outcome |-> "ValueError", value |-> None]
           /\ UNCHANGED entries
    ELSE IF amount /= None /\ Get(amount) < 0
      THEN /\ ret' = [op |-> "update_entry", outcome |-> "ValueError", value |-> None]
           /\ UNCHANGED entries
    ELSE IF category /= None /\ strip(Get(category)) = <<>>
      THEN /\ ret' = [op |-> "update_entry", outcome |-> "ValueError", value |-> None]
           /\ UNCHANGED entries
    ELSE /\ entries' =
              {IF e.id = entry_id
               THEN UpdatedRow_note_always(e, entry_date, entry_type, amount, category,
                                           subcategory, note)
               ELSE e : e \in entries}
         /\ ret' = [op |-> "update_entry", outcome |-> "ok",
                    value |-> Some(get_entry(entry_id) /= None)]

update_entry(entry_id, entry_date, entry_type, amount, category, subcategory, note) ==
    IF entry_type /= None /\ Get(entry_type) \notin {INCOME, EXPENSE}
      THEN /\ ret' = [op |-> "update_entry", outcome |-> "ValueError", value |-> None]
           /\ UNCHANGED entries
    ELSE IF amount /= None /\ Get(amount) < 0
      THEN /\ ret' = [op |-> "update_entry", outcome |-> "ValueError", value |-> None]
           /\ UNCHANGED entries
    ELSE IF category /= None /\ strip(Get(category)) = <<>>
      THEN /\ ret' = [op |-> "update_entry", outcome |-> "ValueError", value |-> None]
           /\ UNCHANGED entries
    ELSE IF /\ entry_date = None /\ entry_type = None /\ amount = None
            /\ category = None /\ subcategory = None /\ note = None
      THEN /\ ret' = [op |-> "update_entry", outcome |-> "ok", value |-> Some(TRUE)]
           /\ UNCHANGED entries
    ELSE /\ entries' =
              {IF e.id = entry_id
               THEN UpdatedRow(e, entry_date, entry_type, amount, category,
                               subcategory, note)
               ELSE e : e \in entries}
         /\ ret' = [op |-> "update_entry", outcome |-> "ok",
                    value |-> Some(get_entry(entry_id) /= None)]

get_entry_count(profile_id) == Cardinality({e \in entries : e.profile_id = profile_id})

(***************************************************************************)
(* Category catalog: the seeding of the default taxonomy.                  *)
(***************************************************************************)
\* income_categories (gongzi, jiangjin, hongbao, touzi shouyi, qita).
income_categories ==
    <<"salary", "bonus", "red_packet", "investment", "other">>

\* expense_categories, in the order of the dict: each top-level name with its
\* children (canyin, jiaotong, gouwu, yule, yiliao, jiaoyu, zhufang, qita).
expense_categories ==
    << <<"dining", <<"breakfast", "lunch", "dinner", "snack">> >>,
       <<"transport", <<"bus", "subway", "taxi", "fuel">> >>,
       <<"shopping", <<"clothing", "daily_goods", "electronics">> >>,
       <<"entertainment", <<"movie", "game", "travel">> >>,
       <<"medical", <<"medicine", "clinic", "checkup">> >>,
       <<"education", <<"books", "course", "training">> >>,
       <<"housing", <<"rent", "utilities", "property_fee">> >>,
       <<"other", <<>> >> >>

\* The (name, parent) pairs init_default_categories inserts, in its order.
RECURSIVE ExpenseRows(_)
ExpenseRows(cs) ==
    IF cs = <<>> THEN <<>>
    ELSE LET parent == Head(cs)[1]
             subs   == Head(cs)[2]
         IN  << <<<<parent>>, None>> >>
             \o [i \in 1..Len(subs) |-> <<<<subs[i]>>, Some(<<parent>>)>>]
             \o ExpenseRows(Tail(cs))

DefaultCategoryRows ==
    [i \in 1..Len(income_categories) |-> <<<<income_categories[i]>>, None>>]
    \o ExpenseRows(expense_categories)

\* UNIQUE(name, parent) as SQLite enforces it: NULLs are distinct from each
\* other, so only a row with a non-NULL parent can conflict.
CategoryConflict(cats, name, parent) ==
    parent /= None /\ \E c \in cats : c.name = name /\ c.parent = parent

\* INSERT OR IGNORE of the rows, one after the other, into the table st.cats
\* with counter st.seq.
RECURSIVE InsertOrIgnoreAll(_, _)
InsertOrIgnoreAll(st, rows) ==
    IF rows = <<>> THEN st
    ELSE LET name   == Head(rows)[1]
             parent == Head(rows)[2]
             nxt == IF CategoryConflict(st.cats, name, parent) THEN st
                    ELSE [cats |-> st.cats \cup
                                     {[id |-> st.seq + 1, name |-> name,
                                       parent |-> parent]},
                          seq |-> st.seq + 1]
         IN  InsertOrIgnoreAll(nxt, Tail(rows))

\* The categories table and counter after init_default_categories.
init_default_categories ==
    InsertOrIgnoreAll([cats |-> categories, seq |-> categorySeq], DefaultCategoryRows)

\* primary_categories of get_categories_by_type: the top-level names of the
\* type, written out again in that method.
primary_categories(entry_type) ==
    IF entry_type = INCOME
    THEN <<"salary", "bonus", "red_packet", "investment", "other">>
    ELSE <<"dining", "transport", "shopping", "entertainment", "medical",
           "education", "housing", "other">>

\* get_categories(parent) for a parent that is not None: the rows whose
\* parent it is.  They are given as the set of their names; the ORDER BY
\* name is not modelled.
get_categories(parent) ==
    {c.name : c \in {x \in categories : x.parent = Some(parent)}}

\* get_categories_by_type(entry_type): the dict from each top-level name of
\* the type to the names of its children.
get_categories_by_type(entry_type) ==
    [category \in {<<primary_categories(entry_type)[i]>> :
                      i \in 1..Len(primary_categories(entry_type))}
        |-> get_categories(category)]

\* The lookup of add_category by the name alone, whatever the parent.
existing_any_parent(name, parent) == \E c \in categories : c.name = name

\* The lookup of add_category: SELECT id FROM categories WHERE name = ? AND
\* parent IS NULL (for parent None), or AND parent = ? (otherwise).
existing(name, parent) ==
    \E c \in categories : c.name = name /\ c.parent = parent

\* add_category on the table as it is: what it raises or returns, and the
\* table and counter it leaves.  The INSERT meets UNIQUE(name, parent).
add_category(name, parent) ==
    LET row == [id |-> categorySeq + 1, name |-> name, parent |-> parent]
        same == [cats |-> categories, seq |-> categorySeq, value |-> None]
    IN  IF existing(name, parent)
          THEN same @@ [outcome |-> "ValueError"]
        ELSE IF CategoryConflict(categories, name, parent)
          THEN same @@ [outcome |-> "RuntimeError"]
        ELSE [cats |-> categories \cup {row}, seq |-> categorySeq + 1,
              value |-> Some(row), outcome |-> "ok"]

\* delete_category: DELETE FROM categories WHERE id = ?, rows_affected > 0.
delete_category(category_id) ==
    /\ categories' = {c \in categories : c.id /= category_id}
    /\ ret' = [op |-> "delete_category", outcome |-> "ok",
               value |-> Some(\E c \in categories : c.id = category_id)]

(***************************************************************************)
(* CSV files.                                                              *)
(*                                                                         *)
(* A file is [enc, lines]: its encoding ("utf-8", "utf-8-sig" for UTF-8    *)
(* with a byte-order mark, "gbk", or "missing" when no file is there) and  *)
(* its non-blank lines, each the sequence of its cells.  The csv module's  *)
(* quoting and the Sniffer's choice of the delimiter are not modelled: a   *)
(* file is given by the cells csv.DictReader yields for it.                *)
(***************************************************************************)
BOM == "BOM"

\* The lines as open(filepath, "r", encoding="utf-8") decodes them: a
\* byte-order mark stays as the first character of the first cell.
Decoded(file) ==
    IF file.enc = "utf-8-sig" /\ file.lines /= <<>> /\ file.lines[1] /= <<>>
    THEN [file.lines EXCEPT ![1] = [@ EXCEPT ![1] = <<BOM>> \o @]]
    ELSE file.lines

\* csv.DictReader.fieldnames: None for a file without lines.
fieldnames(file) == IF Decoded(file) = <<>> THEN None ELSE Some(Decoded(file)[1])

\* The data rows csv.DictReader yields.
DataRows(file) == Tail(Decoded(file))

HasKey(names, key) == \E i \in 1..Len(names) : names[i] = key

\* row[key] of the dict DictReader builds for the cells `cells`: None (the
\* restval) when the line has fewer cells than the header.
RowValue(names, cells, key) ==
    LET i == CHOOSE k \in 1..Len(names) :
                 names[k] = key /\ \A j \in (k + 1)..Len(names) : names[j] /= key
    IN  IF i <= Len(cells) THEN Some(cells[i]) ELSE None

\* row.get(key, "")
RowGet(names, cells, key) ==
    IF HasKey(names, key) THEN RowValue(names, cells, key) ELSE Some(<<>>)

H_DATE == <<"date">>

H_TYPE == <<"type">>

H_AMOUNT == <<"amount">>

H_CATEGORY == <<"category">>

H_SUBCATEGORY == <<"subcategory">>

H_NOTE == <<"note">>

\* DataImporter.required_headers
required_headers == <<H_DATE, H_TYPE, H_AMOUNT, H_CATEGORY>>

Err(line, kind) == [line |-> line, kind |-> kind]

(***************************************************************************)
(* CSV import: validation.                                                 *)
(***************************************************************************)
_validate_date(date_str) == date_str /= <<>> /\ strptime(date_str) /= None

_validate_type(type_str) == type_str \in {INCOME, EXPENSE}

_validate_amount(amount_str) ==
    /\ amount_str /= <<>>
    /\ float(amount_str) /= None
    /\ Get(float(amount_str)) >= 0

\* A required cell is None: row.get(...).strip() raises AttributeError.
RowRaises(names, cells) ==
    \E i \in 1..Len(required_headers) :
        RowGet(names, cells, required_headers[i]) = None

\* _validate_row for a row that does not raise.
_validate_row(names, cells, line_num) ==
    LET cell(key) == strip(Get(RowGet(names, cells, key))) IN
    (IF _validate_date(cell(H_DATE)) THEN <<>> ELSE <<Err(line_num, "date")>>)
    \o (IF _validate_type(cell(H_TYPE)) THEN <<>> ELSE <<Err(line_num, "type")>>)
    \o (IF _validate_amount(cell(H_AMOUNT)) THEN <<>> ELSE <<Err(line_num, "amount")>>)
    \o (IF cell(H_CATEGORY) /= <<>> THEN <<>> ELSE <<Err(line_num, "category")>>)

\* The loop of validate_csv over the data rows from row k on: the errors it
\* collects, and whether a row raised (which ends the loop).
RECURSIVE ValidateRows(_, _, _)
ValidateRows(names, rows, k) ==
    IF k > Len(rows) THEN [errors |-> <<>>, raised |-> FALSE]
    ELSE IF RowRaises(names, rows[k]) THEN [errors |-> <<>>, raised |-> TRUE]
    ELSE LET rest == ValidateRows(names, rows, k + 1)
         IN  [errors |-> _validate_row(names, rows[k], k + 1) \o rest.errors,
              raised |-> rest.raised]

MissingHeaders(names) ==
    SelectSeq(required_headers, LAMBDA h : ~HasKey(names, h))

\* validate_csv(filepath): [ok, errors].
validate_csv(file) ==
    IF file.enc = "missing"
      THEN [ok |-> FALSE, errors |-> <<Err(0, "file_not_found")>>]
    ELSE IF file.enc = "gbk"
      THEN [ok |-> FALSE, errors |-> <<Err(0, "encoding")>>]
    ELSE IF fieldnames(file) = None \/ Get(fieldnames(file)) = <<>>
      THEN [ok |-> FALSE, errors |-> <<Err(0, "empty")>>]
    ELSE IF MissingHeaders(Get(fieldnames(file))) /= <<>>
      THEN [ok |-> FALSE, errors |-> <<Err(0, "missing_headers")>>]
    ELSE LET v == ValidateRows(Get(fieldnames(file)), DataRows(file), 1) IN
         IF v.raised
           THEN [ok |-> FALSE, errors |-> v.errors \o <<Err(0, "read_error")>>]
         ELSE IF DataRows(file) = <<>>
           THEN [ok |-> FALSE, errors |-> v.errors \o <<Err(0, "no_data")>>]
         ELSE [ok |-> v.errors = <<>>, errors |-> v.errors]

(***************************************************************************)
(* The inputs the calls are tried with.                                    *)
(***************************************************************************)
ProfileIds == 1..MaxProfileId

EntryIds == 1..MaxEntryId

Names == {<<"A">>, <<"B">>}

D1 == <<2023, 1, 9>>

D2 == <<2023, 1, 10>>

FOOD == <<"food">>

RENT == <<"rent">>

\* Arguments of add_entry: two that are valid, and one for each way a
\* validation fails (an unknown type, a negative amount, an empty category,
\* a blank category).  Amounts are -1.0, 0.0 and 5.0.
AddInputs ==
    {[entry_type |-> INCOME, amount |-> 5000, category |-> <<SP, "food", SP>>],
     [entry_type |-> EXPENSE, amount |-> 0, category |-> FOOD],
     [entry_type |-> <<"Other">>, amount |-> 5000, category |-> FOOD],
     [entry_type |-> INCOME, amount |-> 0 - 1000, category |-> FOOD],
     [entry_type |-> INCOME, amount |-> 5000, category |-> <<>>],
     [entry_type |-> EXPENSE, amount |-> 5000, category |-> <<SP>>]}

\* Arguments of update_entry: nothing supplied, valid changes, and one for
\* each way a validation fails.
UpdateInputs ==
    {[entry_type |-> None, amount |-> None, category |-> None],
     [entry_type |-> Some(EXPENSE), amount |-> Some(0), category |-> Some(<<"food", SP>>)],
     [entry_type |-> Some(<<"Other">>), amount |-> None, category |-> None],
     [entry_type |-> None, amount |-> Some(0 - 1000), category |-> None],
     [entry_type |-> None, amount |-> Some(5000), category |-> Some(<<SP>>)]}

\* Arguments of add_entry for the queries: two dates, both types, two
\* categories, amounts 5.0, 2.5 and 1.0.
QueryAddInputs ==
    {[entry_date |-> D1, entry_type |-> INCOME, amount |-> 5000, category |-> FOOD],
     [entry_date |-> D2, entry_type |-> EXPENSE, amount |-> 2500, category |-> FOOD],
     [entry_date |-> D2, entry_type |-> INCOME, amount |-> 1000, category |-> RENT]}

\* QueryFilters objects, and None for a call without filters: each field
\* alone, fields together, and empty strings.
FilterInputs ==
    {None,
     Some([start_date |-> None, end_date |-> None, entry_type |-> None,
           category |-> None]),
     Some([start_date |-> Some(D2), end_date |-> None, entry_type |-> None,
           category |-> None]),
     Some([start_date |-> None, end_date |-> Some(D1), entry_type |-> None,
           category |-> None]),
     Some([start_date |-> None, end_date |-> None, entry_type |-> Some(INCOME),
           category |-> None]),
     Some([start_date |-> None, end_date |-> None, entry_type |-> None,
           category |-> Some(FOOD)]),
     Some([start_date |-> Some(D1), end_date |-> Some(D2),
           entry_type |-> Some(EXPENSE), category |-> Some(FOOD)]),
     Some([start_date |-> None, end_date |-> None, entry_type |-> Some(<<>>),
           category |-> Some(<<>>)])}

\* Arguments of update_entry over all six fields: nothing supplied; an
\* amount and a note (with a blank to trim); a date, a type, a category to
\* trim and an empty subcategory; a negative amount.
EntryUpdateInputs ==
    {[entry_date |-> None, entry_type |-> None, amount |-> None, category |-> None,
      subcategory |-> None, note |-> None],
     [entry_date |-> None, entry_type |-> None, amount |-> Some(2000),
      category |-> None, subcategory |-> None, note |-> Some(<<SP, "n2">>)],
     [entry_date |-> Some(D1), entry_type |-> Some(INCOME), amount |-> None,
      category |-> Some(<<"food", SP>>), subcategory |-> Some(<<>>), note |-> None],
     [entry_date |-> None, entry_type |-> None, amount |-> Some(0 - 1000),
      category |-> None, subcategory |-> None, note |-> None]}

\* Arguments of update_profile: nothing supplied; an empty name; each name
\* with a description; a description alone.
ProfileUpdateInputs ==
    {[name |-> None, description |-> None],
     [name |-> Some(<<>>), description |-> None],
     [name |-> Some(<<"A">>), description |-> Some(<<"e">>)],
     [name |-> Some(<<"B">>), description |-> Some(<<"e">>)],
     [name |-> None, description |-> Some(<<"e">>)]}

\* Arguments of add_category: the pairs of the composite-uniqueness example
\* (Food at top level, Food under Life), and a pair of the default taxonomy.
CategoryInputs ==
    {[name |-> FOOD, parent |-> None],
     [name |-> FOOD, parent |-> Some(<<"Life">>)],
     [name |-> <<"lunch">>, parent |-> Some(<<"dining">>)]}

\* Ids delete_category is called with: the first rows, and one never used.
CategoryIds == {1, 2, MaxCategoryId + 1}

\* Arguments of add_entry for the export: with and without the optional
\* fields.
CsvAddInputs ==
    {[entry_date |-> D1, entry_type |-> INCOME, amount |-> 5000, category |-> FOOD,
      subcategory |-> None, note |-> None],
     [entry_date |-> D2, entry_type |-> EXPENSE, amount |-> 125, category |-> RENT,
      subcategory |-> Some(<<"lunch">>), note |-> Some(<<"n">>)]}

\* "2023-01-09"
T_D1 == <<"2", "0", "2", "3", "-", "0", "1", "-", "0", "9">>

\* " 2023-1-9": unpadded, with a leading blank
T_D1u == <<SP, "2", "0", "2", "3", "-", "1", "-", "9">>

NoFile == [enc |-> "missing", lines |-> <<>>]

H4 == <<H_DATE, H_TYPE, H_AMOUNT, H_CATEGORY>>

H6 == <<H_DATE, H_TYPE, H_AMOUNT, H_CATEGORY, H_SUBCATEGORY, H_NOTE>>

\* Two valid rows.
FileOk ==
    [enc |-> "utf-8",
     lines |-> <<H6,
                 <<T_D1, INCOME, <<"5">>, FOOD, <<>>, <<>> >>,
                 <<T_D1u, <<"Expense", SP>>, <<"0", ".", "0", "0">>, <<SP, "food">>,
                   <<SP>>, <<>> >> >>]

\* The file of test_import_from_csv_row_errors: a valid row, a row with an
\* invalid date, a row with a non-numeric amount.
FileRowErrors ==
    [enc |-> "utf-8",
     lines |-> <<H4,
                 <<T_D1, INCOME, <<"5">>, FOOD>>,
                 <<<<"invalid", "-", "date">>, EXPENSE, <<"5">>, FOOD>>,
                 <<T_D1, EXPENSE, <<"invalid">>, FOOD>> >>]

\* A first row without its optional cells, then a full row.
FileShort ==
    [enc |-> "utf-8",
     lines |-> <<H6,
                 <<T_D1, INCOME, <<"5">>, FOOD>>,
                 <<T_D1, EXPENSE, <<"0">>, FOOD, <<>>, <<>> >> >>]

\* A full row, then a row without its optional cells.
FileShortLast ==
    [enc |-> "utf-8",
     lines |-> <<H6,
                 <<T_D1, INCOME, <<"5">>, FOOD, <<>>, <<>> >>,
                 <<T_D1, EXPENSE, <<"0">>, FOOD>> >>]

\* The file of test_import_from_csv_validation_fail.
FileMissingHeaders == [enc |-> "utf-8", lines |-> << <<H_DATE, H_TYPE>> >>]

FileNoData == [enc |-> "utf-8", lines |-> <<H4>>]

FileEmpty == [enc |-> "utf-8", lines |-> <<>>]

FileGbk == [enc |-> "gbk", lines |-> <<H4, <<T_D1, INCOME, <<"5">>, FOOD>> >>]

\* A row whose every cell is wrong, and a row with a required cell missing.
FileAllWrong ==
    [enc |-> "utf-8",
     lines |-> <<H4,
                 <<<<"2", "0", "2", "3", "-", "0", "2", "-", "3", "0">>, <<"income">>,
                   <<"-", "1">>, <<SP>> >>,
                 <<T_D1, INCOME, <<"5">> >> >>]

\* A row with a required cell missing, then a row with an invalid date.
FileShortFirst ==
    [enc |-> "utf-8",
     lines |-> <<H4,
                 <<T_D1, INCOME, <<"5">> >>,
                 <<<<"invalid", "-", "date">>, EXPENSE, <<"5">>, FOOD>> >>]

Files ==
    {FileOk, FileRowErrors, FileShort, FileShortLast, FileShortFirst,
     FileMissingHeaders, FileNoData, FileEmpty, FileGbk, FileAllWrong, NoFile}

\* Arguments of import_from_csv: each file into profile 1, and the valid
\* file into profile 2 as well.
ImportInputs ==
    {[profile_id |-> 1, file |-> FileOk],
     [profile_id |-> 2, file |-> FileOk],
     [profile_id |-> 1, file |-> FileShort],
     [profile_id |-> 1, file |-> FileRowErrors],
     [profile_id |-> 2, file |-> FileMissingHeaders],
     [profile_id |-> 1, file |-> NoFile]}

\* validate_csv of each file of Files, evaluated once.
ValidatedFiles == [f \in Files |-> validate_csv(f)]

Validated(file) ==
    IF file \in Files THEN ValidatedFiles[file] ELSE validate_csv(file)

(***************************************************************************)
(* CSV import: import_from_csv, one step per action.                       *)
(*                                                                         *)
(* imp.phase: "Idle" before any call; "Valid" after validate_csv accepted  *)
(* the file; "Invalid" when the call returned (0, errors); "Importing"     *)
(* while the row loop runs; "Completed" when the call returned             *)
(* (imported_count, import_errors).  While the call runs imp holds its     *)
(* arguments (profile_id, file) and its locals (the connection, line_num,  *)
(* imported_count, import_errors); what it returns goes to ret, with the   *)
(* arguments it was called with.                                           *)
(***************************************************************************)
ImportIdle ==
    [phase |-> "Idle", profile_id |-> 0, file |-> NoFile, conn |-> "none",
     line_num |-> 0, imported_count |-> 0, errors |-> <<>>]

ImportRunning == imp.phase \in {"Valid", "Importing"}

\* The call without `if not is_valid: return 0, errors`.
ImportValidate_unchecked(profile_id, file) ==
    /\ ~ImportRunning
    /\ Validated(file).ok =>
           /\ entrySeq + Len(DataRows(file)) <= MaxEntryId
           /\ dbPath = DURABLE =>
                  categorySeq + Len(DefaultCategoryRows) <= MaxCategoryId
    /\ imp' = [ImportIdle EXCEPT !.phase = "Valid", !.profile_id = profile_id,
                                 !.file = file]
    /\ ret' = [op |-> "import_from_csv", outcome |-> "running", value |-> None]
    /\ UNCHANGED <<threads, dbPath, conn, txn, store, exported>>

\* Lines 117-120: validate first, return (0, errors) when the file is invalid.
ImportValidate(profile_id, file) ==
    /\ ~ImportRunning
    /\ LET v == Validated(file) IN
       /\ v.ok => /\ entrySeq + Len(DataRows(file)) <= MaxEntryId
                  /\ dbPath = DURABLE =>
                         categorySeq + Len(DefaultCategoryRows) <= MaxCategoryId
       /\ imp' = IF v.ok
                 THEN [ImportIdle EXCEPT !.phase = "Valid",
                                         !.profile_id = profile_id,
                                         !.file = file]
                 ELSE [ImportIdle EXCEPT !.phase = "Invalid"]
       /\ ret' = IF v.ok
                 THEN [op |-> "import_from_csv", outcome |-> "running",
                       value |-> None]
                 ELSE [op |-> "import_from_csv", outcome |-> "ok",
                       value |-> Some(<<0, v.errors>>),
                       args |-> [profile_id |-> profile_id, file |-> file]]
    /\ UNCHANGED <<threads, dbPath, conn, txn, store, exported>>

\* Lines 125-158: the connection of the import (the primary one for an
\* in-memory database, else a second one, on which init_db and
\* init_default_categories run), BEGIN, and the reader at line 2.
ImportOpen ==
    /\ imp.phase = "Valid"
    /\ IF begin_transaction.outcome = "ok"
       THEN /\ imp' = [imp EXCEPT
                          !.phase = "Importing",
                          !.conn = IF dbPath = MEMORY THEN "primary" ELSE "second",
                          !.line_num = 2,
                          !.imported_count = 0,
                          !.errors = <<>>]
            /\ IF dbPath = MEMORY
               THEN UNCHANGED <<categories, categorySeq>>
               ELSE /\ categories' = init_default_categories.cats
                    /\ categorySeq' = init_default_categories.seq
            /\ txn' = Some([Tables EXCEPT !.categories = categories',
                                          !.categorySeq = categorySeq'])
            /\ UNCHANGED <<profiles, profileSeq, entries, entrySeq, ret>>
       \* BEGIN raises (a transaction is open on the connection): the except
       \* clause of lines 210-213 rolls back and the call returns.
       ELSE /\ Becomes(rollback)
            /\ imp' = [ImportIdle EXCEPT !.phase = "Completed"]
            /\ ret' = [op |-> "import_from_csv", outcome |-> "ok",
                       value |-> Some(<<0, <<Err(0, "import_aborted")>> >>),
                       args |-> [profile_id |-> imp.profile_id, file |-> imp.file]]
    /\ UNCHANGED <<threads, dbPath, conn, exported>>

\* Lines 161-189 for the cells of one row: what add_entry is called with, or
\* None when the parsing raises before the call.
ParsedRow(names, cells) ==
    LET d   == RowValue(names, cells, H_DATE)
        t   == RowValue(names, cells, H_TYPE)
        a   == RowValue(names, cells, H_AMOUNT)
        c   == RowValue(names, cells, H_CATEGORY)
        sub == RowGet(names, cells, H_SUBCATEGORY)
        nt  == RowGet(names, cells, H_NOTE)
    IN  IF \/ d = None \/ strptime(strip(Get(d))) = None
           \/ t = None
           \/ a = None \/ float(strip(Get(a))) = None
           \/ c = None
           \/ sub = None
           \/ nt = None
        THEN None
        ELSE Some([entry_date |-> Get(strptime(strip(Get(d)))),
                   entry_type |-> strip(Get(t)),
                   amount |-> Get(float(strip(Get(a)))),
                   category |-> strip(Get(c)),
                   subcategory |-> IF strip(Get(sub)) /= <<>>
                                   THEN Some(strip(Get(sub))) ELSE None,
                   note |-> IF strip(Get(nt)) /= <<>>
                            THEN Some(strip(Get(nt))) ELSE None])

\* A pass of the row loop in which a failed row undoes the rows the import
\* inserted before it.
ImportRow_undoes_rows ==
    /\ imp.phase = "Importing"
    /\ imp.line_num - 1 <= Len(DataRows(imp.file))
    /\ LET names == Get(fieldnames(imp.file))
           cells == DataRows(imp.file)[imp.line_num - 1]
           args  == ParsedRow(names, cells)
           r     == IF args = None
                    THEN [outcome |-> "raised", entries |-> entries,
                          entrySeq |-> entrySeq]
                    ELSE add_entry(imp.profile_id, Get(args).entry_date,
                                   Get(args).entry_type, Get(args).amount,
                                   Get(args).category, Get(args).subcategory,
                                   Get(args).note)
       IN  /\ r.outcome = "ok" => entrySeq < MaxEntryId
           /\ entries' = IF r.outcome = "ok" THEN r.entries
                         ELSE {e \in entries : e.id <= entrySeq - imp.imported_count}
           /\ entrySeq' = r.entrySeq
           /\ imp' = IF r.outcome = "ok"
                     THEN [imp EXCEPT !.imported_count = @ + 1,
                                      !.line_num = @ + 1]
                     ELSE [imp EXCEPT
                              !.errors = Append(@, Err(imp.line_num, "import_failed")),
                              !.line_num = @ + 1]
           /\ txn' = IF args = None \/ r.outcome = "ValueError" THEN txn ELSE None
    /\ UNCHANGED <<threads, dbPath, conn, profiles, profileSeq, categories, categorySeq, ret,
                   exported>>

\* A pass of the row loop that counts the row as imported whether or not
\* add_entry returned.
ImportRow_counts_failed ==
    /\ imp.phase = "Importing"
    /\ imp.line_num - 1 <= Len(DataRows(imp.file))
    /\ LET names == Get(fieldnames(imp.file))
           cells == DataRows(imp.file)[imp.line_num - 1]
           args  == ParsedRow(names, cells)
           r     == IF args = None
                    THEN [outcome |-> "raised", entries |-> entries,
                          entrySeq |-> entrySeq]
                    ELSE add_entry(imp.profile_id, Get(args).entry_date,
                                   Get(args).entry_type, Get(args).amount,
                                   Get(args).category, Get(args).subcategory,
                                   Get(args).note)
       IN  /\ r.outcome = "ok" => entrySeq < MaxEntryId
           /\ entries' = r.entries
           /\ entrySeq' = r.entrySeq
           /\ imp' = IF r.outcome = "ok"
                     THEN [imp EXCEPT !.imported_count = @ + 1,
                                      !.line_num = @ + 1]
                     ELSE [imp EXCEPT
                              !.imported_count = @ + 1,
                              !.errors = Append(@, Err(imp.line_num, "import_failed")),
                              !.line_num = @ + 1]
           \* add_entry ends the transaction it runs in: commit() after its
           \* INSERT, rollback() when the INSERT raised; a row it is not
           \* called for, or refuses before the INSERT, leaves it open.
           /\ txn' = IF args = None \/ r.outcome = "ValueError" THEN txn ELSE None
    /\ UNCHANGED <<threads, dbPath, conn, profiles, profileSeq, categories, categorySeq, ret,
                   exported>>

\* Lines 160-197: one pass of the row loop.
ImportRow ==
    /\ imp.phase = "Importing"
    /\ imp.line_num - 1 <= Len(DataRows(imp.file))
    /\ LET names == Get(fieldnames(imp.file))
           cells == DataRows(imp.file)[imp.line_num - 1]
           args  == ParsedRow(names, cells)
           r     == IF args = None
                    THEN [outcome |-> "raised", entries |-> entries,
                          entrySeq |-> entrySeq]
                    ELSE add_entry(imp.profile_id, Get(args).entry_date,
                                   Get(args).entry_type, Get(args).amount,
                                   Get(args).category, Get(args).subcategory,
                                   Get(args).note)
       IN  /\ r.outcome = "ok" => entrySeq < MaxEntryId
           /\ entries' = r.entries
           /\ entrySeq' = r.entrySeq
           /\ imp' = IF r.outcome = "ok"
                     THEN [imp EXCEPT !.imported_count = @ + 1,
                                      !.line_num = @ + 1]
                     ELSE [imp EXCEPT
                              !.errors = Append(@, Err(imp.line_num, "import_failed")),
                              !.line_num = @ + 1]
           \* add_entry ends the transaction it runs in: commit() after its
           \* INSERT, rollback() when the INSERT raised; a row it is not
           \* called for, or refuses before the INSERT, leaves it open.
           /\ txn' = IF args = None \/ r.outcome = "ValueError" THEN txn ELSE None
    /\ UNCHANGED <<threads, dbPath, conn, profiles, profileSeq, categories, categorySeq, ret,
                   exported>>

\* Lines 199-219: commit, close the import's own connection, return
\* (imported_count, import_errors).
ImportCommit ==
    /\ imp.phase = "Importing"
    /\ imp.line_num - 1 > Len(DataRows(imp.file))
    /\ Becomes(commit)
    /\ imp' = [ImportIdle EXCEPT !.phase = "Completed"]
    /\ ret' = [op |-> "import_from_csv", outcome |-> "ok",
               value |-> Some(<<imp.imported_count, imp.errors>>),
               args |-> [profile_id |-> imp.profile_id, file |-> imp.file]]
    /\ UNCHANGED <<threads, dbPath, conn, exported>>

\* The except clause without the finally: the import's connection stays open.
ImportAbort_no_close ==
    /\ imp.phase = "Importing"
    /\ imp.line_num - 1 <= Len(DataRows(imp.file))
    /\ Becomes(rollback)
    /\ imp' = [ImportIdle EXCEPT !.phase = "Completed", !.conn = imp.conn]
    /\ ret' = [op |-> "import_from_csv", outcome |-> "ok",
               value |-> Some(<<imp.imported_count,
                                Append(imp.errors, Err(0, "import_aborted"))>>),
               args |-> [profile_id |-> imp.profile_id, file |-> imp.file]]
    /\ UNCHANGED <<threads, dbPath, conn, exported>>

\* Lines 210-219, when reading the next row of the file raises (the file
\* was validated, so it is the read that fails: the file changed or cannot
\* be read any more): rollback() on the import's connection, the error is
\* added to import_errors, the connection is closed, and the call returns
\* (imported_count, import_errors) without reading any further row.
ImportAbort ==
    /\ imp.phase = "Importing"
    /\ imp.line_num - 1 <= Len(DataRows(imp.file))
    /\ Becomes(rollback)
    /\ imp' = [ImportIdle EXCEPT !.phase = "Completed"]
    /\ ret' = [op |-> "import_from_csv", outcome |-> "ok",
               value |-> Some(<<imp.imported_count,
                                Append(imp.errors, Err(0, "import_aborted"))>>),
               args |-> [profile_id |-> imp.profile_id, file |-> imp.file]]
    /\ UNCHANGED <<threads, dbPath, conn, exported>>

(***************************************************************************)
(* Queries of the ledger.                                                  *)
(***************************************************************************)
\* where_conditions without the clause of the category.
where_conditions_no_category(profile_id, filters) ==
    << <<"profile_id", "=", profile_id>> >>
    \o (IF filters /= None /\ Get(filters).start_date /= None
        THEN << <<"date", ">=", isoformat(Get(Get(filters).start_date))>> >>
        ELSE <<>>)
    \o (IF filters /= None /\ Get(filters).end_date /= None
        THEN << <<"date", "<=", isoformat(Get(Get(filters).end_date))>> >>
        ELSE <<>>)
    \o (IF filters /= None /\ Truthy(Get(filters).entry_type)
        THEN << <<"type", "=", Get(Get(filters).entry_type)>> >>
        ELSE <<>>)

\* where_conditions and params of get_entries and get_statistics: each
\* condition is <<column, operator, parameter>>.
where_conditions(profile_id, filters) ==
    << <<"profile_id", "=", profile_id>> >>
    \o (IF filters /= None /\ Get(filters).start_date /= None
        THEN << <<"date", ">=", isoformat(Get(Get(filters).start_date))>> >>
        ELSE <<>>)
    \o (IF filters /= None /\ Get(filters).end_date /= None
        THEN << <<"date", "<=", isoformat(Get(Get(filters).end_date))>> >>
        ELSE <<>>)
    \o (IF filters /= None /\ Truthy(Get(filters).entry_type)
        THEN << <<"type", "=", Get(Get(filters).entry_type)>> >>
        ELSE <<>>)
    \o (IF filters /= None /\ Truthy(Get(filters).category)
        THEN << <<"category", "=", Get(Get(filters).category)>> >>
        ELSE <<>>)

\* One condition of a WHERE clause on a row of entries.
Holds(row, cond) ==
    IF cond[1] = "profile_id" THEN row.profile_id = cond[3]
    ELSE IF cond[1] = "type" THEN row.type = cond[3]
    ELSE IF cond[1] = "category" THEN row.category = cond[3]
    ELSE IF cond[2] = ">=" THEN TextLeq(cond[3], row.date)
    ELSE TextLeq(row.date, cond[3])

\* SELECT * FROM entries WHERE <all the conditions>
Where(conds) == {e \in entries : \A i \in 1..Len(conds) : Holds(e, conds[i])}

\* ORDER BY date DESC, id ASC
RowBefore_id_asc(a, b) ==
    TextLess(b.date, a.date) \/ (a.date = b.date /\ a.id < b.id)

\* ORDER BY date DESC, id DESC
RowBefore(a, b) == TextLess(b.date, a.date) \/ (a.date = b.date /\ a.id > b.id)

RECURSIVE OrderBy(_)
OrderBy(rows) ==
    IF rows = {} THEN <<>>
    ELSE LET first == CHOOSE r \in rows : \A o \in rows \ {r} : RowBefore(r, o)
         IN  <<first>> \o OrderBy(rows \ {first})

get_entries(profile_id, filters) ==
    LET rows == OrderBy(Where(where_conditions(profile_id, filters)))
    IN  [i \in 1..Len(rows) |-> EntryOf(rows[i])]

\* SUM(amount) over a set of rows.
RECURSIVE SumAmount(_)
SumAmount(rows) ==
    IF rows = {} THEN 0
    ELSE LET r == CHOOSE e \in rows : TRUE IN r.amount + SumAmount(rows \ {r})

\* get_statistics counting the income rows alone.
get_statistics_income_count(profile_id, filters) ==
    LET conds == where_conditions(profile_id, filters)
        income_rows == Where(conds \o << <<"type", "=", INCOME>> >>)
        expense_rows == Where(conds \o << <<"type", "=", EXPENSE>> >>)
        total_income == SumAmount(income_rows)
        total_expense == SumAmount(expense_rows)
    IN  [total_income |-> total_income,
         total_expense |-> total_expense,
         balance |-> total_income - total_expense,
         count |-> Cardinality(income_rows)]

get_statistics(profile_id, filters) ==
    LET conds == where_conditions(profile_id, filters)
        income_rows == Where(conds \o << <<"type", "=", INCOME>> >>)
        expense_rows == Where(conds \o << <<"type", "=", EXPENSE>> >>)
        total_income == SumAmount(income_rows)
        total_expense == SumAmount(expense_rows)
    IN  [total_income |-> total_income,
         total_expense |-> total_expense,
         balance |-> total_income - total_expense,
         count |-> Cardinality(income_rows) + Cardinality(expense_rows)]

(***************************************************************************)
(* CSV export.                                                             *)
(***************************************************************************)
\* The header row _generate_csv_content writes.
export_header ==
    <<H_DATE, H_TYPE, H_AMOUNT, <<"category1">>, <<"category2">>, H_NOTE>>

_generate_csv_content(entry_list) ==
    <<export_header>>
    \o [i \in 1..Len(entry_list) |->
           <<isoformat(entry_list[i].date),
             entry_list[i].type,
             format2f(entry_list[i].amount),
             entry_list[i].category,
             IF Truthy(entry_list[i].subcategory)
               THEN Get(entry_list[i].subcategory) ELSE <<>>,
             IF Truthy(entry_list[i].note)
               THEN Get(entry_list[i].note) ELSE <<>> >>]

\* export_to_string: the CSV text, or None when there is no entry.
export_to_string(profile_id, filters) ==
    IF get_entries(profile_id, filters) = <<>> THEN None
    ELSE Some([enc |-> "utf-8",
               lines |-> _generate_csv_content(get_entries(profile_id, filters))])

\* export_to_csv: the file written (UTF-8 with a byte-order mark), or None
\* when there is no entry and the call returns False.
export_to_csv(profile_id, filters) ==
    IF get_entries(profile_id, filters) = <<>> THEN None
    ELSE Some([enc |-> "utf-8-sig",
               lines |-> _generate_csv_content(get_entries(profile_id, filters))])

(***************************************************************************)
(* The calls a client makes on the primary connection, as actions.  A call *)
(* that reaches its commit() ends the transaction open on the connection,  *)
(* with all it holds; a call whose except clause runs rollback() undoes    *)
(* all of it; a call that raises or returns before its statement leaves    *)
(* the transaction as it was.                                              *)
(***************************************************************************)
CreateProfile(name, description) ==
    /\ create_profile(name, description)
    /\ txn' = IF ret'.outcome = "ok" THEN None ELSE txn
    /\ UNCHANGED <<threads, dbPath, conn, categories, categorySeq, entries, entrySeq, imp, exported>>

\* The ValueError of a name in use is raised inside the try: rollback().
UpdateProfile(profile_id, name, description) ==
    /\ update_profile(profile_id, name, description)
    /\ IF ~Truthy(name) /\ description = None
       THEN UNCHANGED <<txn, profileSeq, categories, categorySeq, entries, entrySeq>>
       ELSE IF NameInUse(profile_id, name)
       THEN /\ txn' = rollback.txn
            /\ profileSeq' = rollback.tables.profileSeq
            /\ categories' = rollback.tables.categories
            /\ categorySeq' = rollback.tables.categorySeq
            /\ entries' = rollback.tables.entries
            /\ entrySeq' = rollback.tables.entrySeq
       ELSE /\ txn' = None
            /\ UNCHANGED <<profileSeq, categories, categorySeq, entries, entrySeq>>
    /\ UNCHANGED <<threads, dbPath, conn, imp, exported>>

DeleteProfile(profile_id) ==
    /\ delete_profile(profile_id)
    /\ txn' = None
    /\ UNCHANGED <<threads, dbPath, conn, profileSeq, categories, categorySeq, entrySeq, imp, exported>>

\* add_entry without the commit() after its INSERT: the transaction the
\* INSERT began stays open.
AddEntryCall_no_commit(profile_id, entry_date, entry_type, amount, category, subcategory, note) ==
    LET r == add_entry(profile_id, entry_date, entry_type, amount, category,
                       subcategory, note)
    IN  /\ r.outcome = "ok" => entrySeq < MaxEntryId
        /\ ret' = [op |-> "add_entry", outcome |-> r.outcome, value |-> r.value]
        /\ IF r.outcome = "RuntimeError"
           THEN Becomes(rollback)
           ELSE /\ entries' = r.entries
                /\ entrySeq' = r.entrySeq
                /\ txn' = IF r.outcome = "ok" THEN ImplicitBegin ELSE txn
                /\ UNCHANGED <<profiles, profileSeq, categories, categorySeq>>
        /\ UNCHANGED <<threads, dbPath, conn, imp, exported>>

AddEntryCall(profile_id, entry_date, entry_type, amount, category, subcategory, note) ==
    LET r == add_entry(profile_id, entry_date, entry_type, amount, category,
                       subcategory, note)
    IN  /\ r.outcome = "ok" => entrySeq < MaxEntryId
        /\ ret' = [op |-> "add_entry", outcome |-> r.outcome, value |-> r.value]
        /\ IF r.outcome = "RuntimeError"
           THEN Becomes(rollback)
           ELSE /\ entries' = r.entries
                /\ entrySeq' = r.entrySeq
                /\ txn' = IF r.outcome = "ok" THEN None ELSE txn
                /\ UNCHANGED <<profiles, profileSeq, categories, categorySeq>>
        /\ UNCHANGED <<threads, dbPath, conn, imp, exported>>

UpdateEntry(entry_id, entry_date, entry_type, amount, category, subcategory, note) ==
    /\ update_entry(entry_id, entry_date, entry_type, amount, category, subcategory, note)
    /\ txn' = IF \/ ret'.outcome /= "ok"
                 \/ /\ entry_date = None /\ entry_type = None /\ amount = None
                    /\ category = None /\ subcategory = None /\ note = None
              THEN txn ELSE None
    /\ UNCHANGED <<threads, dbPath, conn, profiles, profileSeq, categories, categorySeq, entrySeq, imp,
                   exported>>

DeleteEntry(entry_id) ==
    /\ delete_entry(entry_id)
    /\ txn' = None
    /\ UNCHANGED <<threads, dbPath, conn, profiles, profileSeq, categories, categorySeq, entrySeq, imp,
                   exported>>
GetEntries(profile_id, filters) ==
    /\ ret' = [op |-> "get_entries", outcome |-> "ok",
               value |-> Some(get_entries(profile_id, filters)),
               args |-> [profile_id |-> profile_id, filters |-> filters]]
    /\ UNCHANGED <<threads, dbPath, conn, txn, store, imp, exported>>

GetStatistics(profile_id, filters) ==
    /\ ret' = [op |-> "get_statistics", outcome |-> "ok",
               value |-> Some(get_statistics(profile_id, filters)),
               args |-> [profile_id |-> profile_id, filters |-> filters]]
    /\ UNCHANGED <<threads, dbPath, conn, txn, store, imp, exported>>

\* export_to_string returns the text, or None when there is nothing to export.
ExportToString(profile_id, filters) ==
    LET out == export_to_string(profile_id, filters) IN
    /\ ret' = [op |-> "export_to_string", outcome |-> "ok", value |-> out]
    /\ exported' = IF out /= None
                   THEN Some([profile_id |-> profile_id, file |-> Get(out)])
                   ELSE exported
    /\ UNCHANGED <<threads, dbPath, conn, txn, store, imp>>

\* export_to_csv writes the file and returns True, or writes nothing and
\* returns False when there is nothing to export.
ExportToCsv(profile_id, filters) ==
    LET out == export_to_csv(profile_id, filters) IN
    /\ ret' = [op |-> "export_to_csv", outcome |-> "ok", value |-> Some(out /= None)]
    /\ exported' = IF out /= None
                   THEN Some([profile_id |-> profile_id, file |-> Get(out)])
                   ELSE exported
    /\ UNCHANGED <<threads, dbPath, conn, txn, store, imp>>

\* init_default_categories called by the client (the main window calls it
\* at every start).
InitDefaultCategories ==
    /\ init_default_categories.seq <= MaxCategoryId
    /\ categories' = init_default_categories.cats
    /\ categorySeq' = init_default_categories.seq
    /\ ret' = [op |-> "init_default_categories", outcome |-> "ok", value |-> None]
    /\ txn' = None
    /\ UNCHANGED <<threads, dbPath, conn, profiles, profileSeq, entries, entrySeq, imp,
                   exported>>

AddCategory(name, parent) ==
    LET r == add_category(name, parent) IN
    /\ r.outcome = "ok" => categorySeq < MaxCategoryId
    /\ ret' = [op |-> "add_category", outcome |-> r.outcome, value |-> r.value]
    /\ IF r.outcome = "RuntimeError"
       THEN Becomes(rollback)
       ELSE /\ categories' = r.cats
            /\ categorySeq' = r.seq
            /\ txn' = IF r.outcome = "ok" THEN None ELSE txn
            /\ UNCHANGED <<profiles, profileSeq, entries, entrySeq>>
    /\ UNCHANGED <<threads, dbPath, conn, imp, exported>>

DeleteCategory(category_id) ==
    /\ delete_category(category_id)
    /\ txn' = None
    /\ UNCHANGED <<threads, dbPath, conn, profiles, profileSeq, categorySeq, entries,
                   entrySeq, imp, exported>>

\* The client's thread between two calls: how the last one ended, what it
\* returned when it was a query, and how many entries the thread has added.
CallIdle(outcome, value, added) ==
    [phase |-> "Idle", outcome |-> outcome, value |-> value, added |-> added]

Init ==
    /\ dbPath \in {MEMORY, DURABLE}
    /\ conn = OPEN
    /\ txn = None
    /\ profiles = {}
    /\ profileSeq = 0
    /\ categories = {}
    /\ categorySeq = 0
    /\ entries = {}
    /\ entrySeq = 0
    /\ ret = [op |-> "init", outcome |-> "ok", value |-> None]
    /\ imp = ImportIdle
    /\ exported = None
    /\ lock = None
    /\ call = CallIdle("none", {}, 0)


(***************************************************************************)
(* The registry, the ledger and the import, called one after the other by  *)
(* a single client: no call starts while an import is running.             *)
(***************************************************************************)
Next ==
    \/ /\ ~ImportRunning
       /\ \E name \in Names : CreateProfile(name, <<>>)
    \/ /\ ~ImportRunning
       /\ \E profile_id \in ProfileIds : DeleteProfile(profile_id)
    \/ /\ ~ImportRunning
       /\ \E profile_id \in ProfileIds, a \in AddInputs :
             AddEntryCall(profile_id, D1, a.entry_type, a.amount, a.category,
                          None, None)
    \/ /\ ~ImportRunning
       /\ \E entry_id \in EntryIds, u \in UpdateInputs :
             UpdateEntry(entry_id, None, u.entry_type, u.amount, u.category,
                         None, None)
    \/ /\ ~ImportRunning
       /\ \E entry_id \in EntryIds : DeleteEntry(entry_id)
    \/ \E i \in ImportInputs : ImportValidate(i.profile_id, i.file)
    \/ ImportOpen
    \/ ImportRow
    \/ ImportCommit

Spec == Init /\ [][Next]_vars

(***************************************************************************)
(* The ledger and its queries, on an in-memory database.                   *)
(***************************************************************************)
InitMemory == Init /\ dbPath = MEMORY

NextQuery ==
    \/ \E name \in Names : CreateProfile(name, <<>>)
    \/ \E profile_id \in ProfileIds, a \in QueryAddInputs :
          AddEntryCall(profile_id, a.entry_date, a.entry_type, a.amount,
                       a.category, None, None)
    \/ \E profile_id \in ProfileIds, filters \in FilterInputs :
          GetEntries(profile_id, filters)
    \/ \E profile_id \in ProfileIds, filters \in FilterInputs :
          GetStatistics(profile_id, filters)

SpecQuery == InitMemory /\ [][NextQuery]_vars

(***************************************************************************)
(* Export and re-import.  A ledger is filled by add_entry or by the import *)
(* of a hand-written file, a profile is exported, and the exported CSV is  *)
(* imported into a profile that has no entry; nothing is added once a      *)
(* profile has been exported.                                              *)
(***************************************************************************)
NextCsv ==
    \/ /\ ~ImportRunning
       /\ \E name \in Names : CreateProfile(name, <<>>)
    \/ /\ ~ImportRunning
       /\ exported = None
       /\ \E profile_id \in ProfileIds, a \in CsvAddInputs :
             AddEntryCall(profile_id, a.entry_date, a.entry_type, a.amount,
                          a.category, a.subcategory, a.note)
    \/ /\ exported = None
       /\ \E profile_id \in ProfileIds : ImportValidate(profile_id, FileOk)
    \/ ImportOpen
    \/ ImportRow
    \/ ImportCommit
    \/ /\ ~ImportRunning
       /\ \E profile_id \in ProfileIds : ExportToString(profile_id, None)
    \/ /\ ~ImportRunning
       /\ \E profile_id \in ProfileIds : ExportToCsv(profile_id, None)
    \/ /\ exported /= None
       /\ \E profile_id \in ProfileIds :
             /\ get_profile(profile_id) /= None
             /\ get_entry_count(profile_id) = 0
             /\ ImportValidate(profile_id, Get(exported).file)

SpecCsv == Init /\ [][NextCsv]_vars

(***************************************************************************)
(* The category catalog: the seeding, add and delete, and the import,      *)
(* which seeds the catalog on its own connection to a database file.       *)
(***************************************************************************)
NextCatalog ==
    \/ /\ ~ImportRunning
       /\ InitDefaultCategories
    \/ /\ ~ImportRunning
       /\ \E c \in CategoryInputs : AddCategory(c.name, c.parent)
    \/ /\ ~ImportRunning
       /\ \E category_id \in CategoryIds : DeleteCategory(category_id)
    \/ ImportValidate(1, FileOk)
    \/ ImportOpen
    \/ ImportRow
    \/ ImportCommit

SpecCatalog == Init /\ [][NextCatalog]_vars

(***************************************************************************)
(* The ledger under update: entries of one profile are added, updated over *)
(* all their fields, and deleted.  update_entry is called for the entries  *)
(* that exist.                                                             *)
(***************************************************************************)
NextLedger ==
    \/ CreateProfile(<<"A">>, <<>>)
    \/ \E profile_id \in ProfileIds, a \in CsvAddInputs :
          AddEntryCall(profile_id, a.entry_date, a.entry_type, a.amount,
                       a.category, a.subcategory, a.note)
    \/ \E e \in entries, u \in EntryUpdateInputs :
          UpdateEntry(e.id, u.entry_date, u.entry_type, u.amount, u.category,
                      u.subcategory, u.note)
    \/ \E entry_id \in EntryIds : DeleteEntry(entry_id)

SpecLedger == Init /\ [][NextLedger]_vars

(***************************************************************************)
(* The registry under update, with the deletes and updates of the ledger   *)
(* and the catalog, called with ids that exist and ids that do not.  The   *)
(* ledger holds at most the first entry of the first profile, the catalog  *)
(* at most the first category a client added.                              *)
(***************************************************************************)
NextRegistry ==
    \/ \E name \in Names : CreateProfile(name, <<>>)
    \/ \E profile_id \in ProfileIds, u \in ProfileUpdateInputs :
          UpdateProfile(profile_id, u.name, u.description)
    \/ \E profile_id \in ProfileIds : DeleteProfile(profile_id)
    \/ /\ entrySeq = 0
       /\ AddEntryCall(1, D1, INCOME, 5000, FOOD, None, None)
    \/ \E entry_id \in EntryIds, u \in EntryUpdateInputs :
          UpdateEntry(entry_id, u.entry_date, u.entry_type, u.amount, u.category,
                      u.subcategory, u.note)
    \/ \E entry_id \in EntryIds : DeleteEntry(entry_id)
    \/ /\ categorySeq = 0
       /\ AddCategory(FOOD, None)
    \/ \E category_id \in CategoryIds : DeleteCategory(category_id)

SpecRegistry == Init /\ [][NextRegistry]_vars

(***************************************************************************)
(* The import with a file that may stop being readable while the row loop  *)
(* runs, into a ledger whose entries the same client deletes between       *)
(* imports.                                                                *)
(***************************************************************************)
NextImport ==
    \/ /\ ~ImportRunning
       /\ \E name \in Names : CreateProfile(name, <<>>)
    \/ /\ ~ImportRunning
       /\ \E entry_id \in EntryIds : DeleteEntry(entry_id)
    \/ \E profile_id \in ProfileIds,
          file \in {FileOk, FileShort, FileShortLast, FileRowErrors, NoFile} :
          ImportValidate(profile_id, file)
    \/ ImportOpen
    \/ ImportRow
    \/ ImportAbort
    \/ ImportCommit

SpecImport == Init /\ [][NextImport]_vars

(***************************************************************************)
(* Validation and import as the import dialog runs them: validate_csv of   *)
(* the chosen file, then import_from_csv.                                  *)
(***************************************************************************)
\* validate_csv(filepath), called on its own.
ValidateCsv(file) ==
    /\ ~ImportRunning
    /\ ret' = [op |-> "validate_csv", outcome |-> "ok",
               value |-> Some(<<Validated(file).ok, Validated(file).errors>>),
               args |-> [profile_id |-> 0, file |-> file]]
    /\ UNCHANGED <<threads, dbPath, conn, txn, store, imp, exported>>

NextValidate ==
    \/ /\ ~ImportRunning
       /\ \E name \in Names : CreateProfile(name, <<>>)
    \/ \E file \in Files : ValidateCsv(file)
    \/ \E file \in {FileOk, FileShort, FileRowErrors, FileShortFirst} :
          ImportValidate(1, file)
    \/ ImportOpen
    \/ ImportRow
    \/ ImportCommit

SpecValidate == Init /\ [][NextValidate]_vars

(***************************************************************************)
(* The mutations of the three managers when the storage fails: the         *)
(* Database.execute of their statement raises (a closed connection, a      *)
(* locked or unwritable file; the tests make it raise by replacing         *)
(* db.execute).  Each manager catches the exception, rolls back, and then  *)
(* either raises RuntimeError with the message of its operation or logs    *)
(* and returns False.  The checks and the early returns that precede the   *)
(* statement are the guard of each action.                                 *)
(***************************************************************************)
\* The rollback of the except clause, the statement having written nothing.
RolledBack ==
    /\ Becomes(rollback)
    /\ UNCHANGED <<threads, dbPath, conn, imp, exported>>

CreateProfileDbError(name, description) ==
    /\ get_profile_by_name(name) = None
    /\ ret' = [op |-> "create_profile", outcome |-> "RuntimeError", value |-> None]
    /\ RolledBack

UpdateProfileDbError(profile_id, name, description) ==
    /\ Truthy(name) \/ description /= None
    /\ ret' = [op |-> "update_profile", outcome |-> "ok", value |-> Some(FALSE)]
    /\ RolledBack

DeleteProfileDbError(profile_id) ==
    /\ ret' = [op |-> "delete_profile", outcome |-> "ok", value |-> Some(FALSE)]
    /\ RolledBack

AddEntryDbError(profile_id, entry_date, entry_type, amount, category, subcategory, note) ==
    /\ entry_type \in {INCOME, EXPENSE}
    /\ amount >= 0
    /\ strip(category) /= <<>>
    /\ ret' = [op |-> "add_entry", outcome |-> "RuntimeError", value |-> None]
    /\ RolledBack

UpdateEntryDbError(entry_id, entry_date, entry_type, amount, category, subcategory, note) ==
    /\ entry_type /= None => Get(entry_type) \in {INCOME, EXPENSE}
    /\ amount /= None => Get(amount) >= 0
    /\ category /= None => strip(Get(category)) /= <<>>
    /\ \/ entry_date /= None \/ entry_type /= None \/ amount /= None
       \/ category /= None \/ subcategory /= None \/ note /= None
    /\ ret' = [op |-> "update_entry", outcome |-> "ok", value |-> Some(FALSE)]
    /\ RolledBack

DeleteEntryDbError(entry_id) ==
    /\ ret' = [op |-> "delete_entry", outcome |-> "ok", value |-> Some(FALSE)]
    /\ RolledBack

AddCategoryDbError(name, parent) ==
    /\ ~existing(name, parent)
    /\ ret' = [op |-> "add_category", outcome |-> "RuntimeError", value |-> None]
    /\ RolledBack

DeleteCategoryDbError(category_id) ==
    /\ ret' = [op |-> "delete_category", outcome |-> "ok", value |-> Some(FALSE)]
    /\ RolledBack

NextFailure ==
    \/ \E name \in Names : CreateProfile(name, <<>>)
    \/ \E profile_id \in ProfileIds :
          AddEntryCall(profile_id, D1, INCOME, 5000, FOOD, None, None)
    \/ /\ categorySeq = 0
       /\ AddCategory(FOOD, None)
    \/ \E name \in Names : CreateProfileDbError(name, <<>>)
    \/ \E profile_id \in ProfileIds, u \in ProfileUpdateInputs :
          UpdateProfileDbError(profile_id, u.name, u.description)
    \/ \E profile_id \in ProfileIds : DeleteProfileDbError(profile_id)
    \/ \E profile_id \in ProfileIds :
          AddEntryDbError(profile_id, D1, INCOME, 5000, FOOD, None, None)
    \/ \E entry_id \in EntryIds, u \in EntryUpdateInputs :
          UpdateEntryDbError(entry_id, u.entry_date, u.entry_type, u.amount,
                             u.category, u.subcategory, u.note)
    \/ \E entry_id \in EntryIds : DeleteEntryDbError(entry_id)
    \/ \E name \in {FOOD, <<"rent">>} : AddCategoryDbError(name, None)
    \/ \E category_id \in CategoryIds : DeleteCategoryDbError(category_id)

SpecFailure == Init /\ [][NextFailure]_vars

(***************************************************************************)
(* The ledger under add and update of the optional texts alone: the        *)
(* subcategory and the note are absent, empty, blank, or a text between    *)
(* spaces.                                                                 *)
(***************************************************************************)
OptionalTexts == {None, Some(<<>>), Some(<<SP>>), Some(<<SP, "n", SP>>)}

NextOptional ==
    \/ CreateProfile(<<"A">>, <<>>)
    \/ \E subcategory \in OptionalTexts, note \in OptionalTexts :
          AddEntryCall(1, D1, INCOME, 5000, FOOD, subcategory, note)
    \/ \E e \in entries, subcategory \in OptionalTexts, note \in OptionalTexts :
          UpdateEntry(e.id, None, None, None, None, subcategory, note)
    \/ \E entry_id \in EntryIds : DeleteEntry(entry_id)

SpecOptional == Init /\ [][NextOptional]_vars

(***************************************************************************)
(* The catalog seeded, read by type, and changed under the top-level name  *)
(* both types have.                                                        *)
(***************************************************************************)
GetCategoriesByType(entry_type) ==
    /\ ret' = [op |-> "get_categories_by_type", outcome |-> "ok",
               value |-> Some(get_categories_by_type(entry_type)),
               args |-> [entry_type |-> entry_type]]
    /\ UNCHANGED <<threads, dbPath, conn, txn, store, imp, exported>>

NextTaxonomy ==
    \/ InitDefaultCategories
    \/ \E entry_type \in {INCOME, EXPENSE} : GetCategoriesByType(entry_type)
    \/ \E name \in {FOOD, <<"fee">>}, parent \in {None, Some(<<"other">>)} :
          AddCategory(name, parent)
    \/ \E category_id \in CategoryIds : DeleteCategory(category_id)

SpecTaxonomy == Init /\ [][NextTaxonomy]_vars

(***************************************************************************)
(* An import into a database file, run by the dialog in a worker thread    *)
(* on its own connection, while the client's thread calls add_entry and    *)
(* get_entries on the primary connection.  The two threads interleave      *)
(* between the statements: an INSERT takes the write lock of the file and  *)
(* the commit that follows releases it; an INSERT that finds the lock      *)
(* taken waits (sqlite3's busy timeout, 5 s by default) and raises         *)
(* "database is locked" when the wait is over and the lock still taken.    *)
(* A SELECT is not held up by an INSERT that is not committed (rollback    *)
(* journal); the exclusive lock of the commit itself is inside the commit  *)
(* step.  ret is the call of the worker thread, call that of the client.   *)
(* The ledger holds at most MaxEntryId + 1 entries.                        *)
(***************************************************************************)
\* What the pass of the row loop at imp.line_num does with its row: raised
\* before add_entry, or the result of add_entry.
ImportRowResult ==
    LET names == Get(fieldnames(imp.file))
        cells == DataRows(imp.file)[imp.line_num - 1]
        args  == ParsedRow(names, cells)
    IN  IF args = None
        THEN [outcome |-> "raised", entries |-> entries, entrySeq |-> entrySeq]
        ELSE add_entry(imp.profile_id, Get(args).entry_date, Get(args).entry_type,
                       Get(args).amount, Get(args).category, Get(args).subcategory,
                       Get(args).note)

\* The row the INSERT of a successful add_entry r writes.
InsertedRow(r) == CHOOSE e \in r.entries : e \notin entries

ImportAtRow ==
    /\ imp.phase = "Importing"
    /\ imp.line_num - 1 <= Len(DataRows(imp.file))

\* entry_manager.py:64-77 in the worker: the INSERT of the row, the lock free.
ImportInsert ==
    /\ ImportAtRow
    /\ lock = None
    /\ ImportRowResult.outcome = "ok"
    /\ entrySeq <= MaxEntryId
    /\ lock' = Some([holder |-> "import", row |-> InsertedRow(ImportRowResult)])
    /\ UNCHANGED <<dbPath, conn, txn, store, ret, imp, exported, call>>

\* entry_manager.py:79 in the worker, and importer.py:191: the commit of the
\* row, imported_count += 1.
ImportRowCommit ==
    /\ lock /= None
    /\ Get(lock).holder = "import"
    /\ entries' = entries \cup {Get(lock).row}
    /\ entrySeq' = Get(lock).row.id
    /\ imp' = [imp EXCEPT !.imported_count = @ + 1, !.line_num = @ + 1]
    /\ txn' = None
    /\ lock' = None
    /\ UNCHANGED <<dbPath, conn, profiles, profileSeq, categories, categorySeq, ret,
                   exported, call>>

\* importer.py:193-197: the row raises before its INSERT, or its INSERT is
\* refused by a constraint.
ImportRowFails ==
    /\ ImportAtRow
    /\ ImportRowResult.outcome /= "ok"
    /\ ImportRowResult.outcome = "RuntimeError" => lock = None
    /\ imp' = [imp EXCEPT !.errors = Append(@, Err(imp.line_num, "import_failed")),
                          !.line_num = @ + 1]
    /\ txn' = IF ImportRowResult.outcome = "RuntimeError" THEN None ELSE txn
    /\ UNCHANGED <<dbPath, conn, store, ret, exported, threads>>

\* The INSERT of the row finds the lock taken until its wait is over:
\* add_entry raises RuntimeError (database is locked), a row error.
ImportRowLocked ==
    /\ ImportAtRow
    /\ ImportRowResult.outcome \in {"ok", "RuntimeError"}
    /\ lock /= None
    /\ Get(lock).holder = "primary"
    /\ imp' = [imp EXCEPT !.errors = Append(@, Err(imp.line_num, "import_failed")),
                          !.line_num = @ + 1]
    /\ txn' = None
    /\ UNCHANGED <<dbPath, conn, store, ret, exported, threads>>

\* The entry the client adds: add_entry(1, D2, EXPENSE, 125, RENT).
ClientAdd == add_entry(1, D2, EXPENSE, 125, RENT, None, None)

\* The client calls add_entry for a profile that exists.
ClientAddEntry ==
    /\ dbPath = DURABLE
    /\ call.phase = "Idle"
    /\ ClientAdd.outcome = "ok"
    /\ call' = [call EXCEPT !.phase = "Waiting", !.outcome = "running", !.value = {}]
    /\ UNCHANGED <<dbPath, conn, txn, store, ret, imp, exported, lock>>

\* Its INSERT run whether or not the lock is free.
ClientInsert_ignores_lock ==
    /\ call.phase = "Waiting"
    /\ entrySeq <= MaxEntryId
    /\ lock' = Some([holder |-> "primary", row |-> InsertedRow(ClientAdd)])
    /\ call' = [call EXCEPT !.phase = "Inserted"]
    /\ UNCHANGED <<dbPath, conn, txn, store, ret, imp, exported>>

\* Its INSERT, the lock free.
ClientInsert ==
    /\ call.phase = "Waiting"
    /\ lock = None
    /\ entrySeq <= MaxEntryId
    /\ lock' = Some([holder |-> "primary", row |-> InsertedRow(ClientAdd)])
    /\ call' = [call EXCEPT !.phase = "Inserted"]
    /\ UNCHANGED <<dbPath, conn, txn, store, ret, imp, exported>>

\* Its commit: add_entry returns the entry.
ClientCommit ==
    /\ call.phase = "Inserted"
    /\ entries' = entries \cup {Get(lock).row}
    /\ entrySeq' = Get(lock).row.id
    /\ lock' = None
    /\ call' = CallIdle("ok", {}, call.added + 1)
    /\ UNCHANGED <<dbPath, conn, txn, profiles, profileSeq, categories, categorySeq, ret,
                   imp, exported>>

\* Its INSERT finds the lock taken until its wait is over: rollback, and
\* add_entry raises RuntimeError (database is locked).
ClientLocked ==
    /\ call.phase = "Waiting"
    /\ lock /= None
    /\ call' = CallIdle("RuntimeError", {}, call.added)
    /\ UNCHANGED <<dbPath, conn, txn, store, ret, imp, exported, lock>>

\* The client reads the ledger: the rows committed.
ClientGetEntries ==
    /\ dbPath = DURABLE
    /\ call.phase = "Idle"
    /\ call' = CallIdle("read", entries, call.added)
    /\ UNCHANGED <<dbPath, conn, txn, store, ret, imp, exported, lock>>

NextConcurrent ==
    \/ /\ ~ImportRunning
       /\ call.phase = "Idle"
       /\ CreateProfile(<<"A">>, <<>>)
    \/ /\ dbPath = DURABLE
       /\ \E file \in {FileOk, FileShortLast} : ImportValidate(1, file)
    \/ /\ lock = None
       /\ ImportOpen
    \/ ImportInsert
    \/ ImportRowCommit
    \/ ImportRowFails
    \/ ImportRowLocked
    \/ ImportCommit
    \/ ClientAddEntry
    \/ ClientInsert
    \/ ClientCommit
    \/ ClientLocked
    \/ ClientGetEntries

SpecConcurrent == Init /\ [][NextConcurrent]_vars

(***************************************************************************)
(* The storage gateway called by a client that holds the Database object.  *)
(***************************************************************************)
GatewayStatements ==
    {[stmt |-> INSERT, name |-> n, id |-> 0] : n \in Names}
    \cup {[stmt |-> DELETE, name |-> <<>>, id |-> i] : i \in ProfileIds}
    \cup {[stmt |-> SELECT, name |-> <<>>, id |-> 0],
          [stmt |-> BEGIN, name |-> <<>>, id |-> 0]}

Execute(sql) ==
    LET r == execute(sql) IN
    /\ (sql.stmt = INSERT /\ r.outcome = "ok") => profileSeq < MaxProfileId
    /\ Becomes(r)
    /\ ret' = [op |-> "execute", outcome |-> r.outcome, value |-> r.value]
    /\ UNCHANGED <<threads, dbPath, conn, imp, exported>>

FetchAll(name) ==
    /\ ret' = [op |-> "fetchall", outcome |-> fetchall(name).outcome,
               value |-> fetchall(name).value]
    /\ UNCHANGED <<threads, dbPath, conn, txn, store, imp, exported>>

FetchOne(name) ==
    /\ ret' = [op |-> "fetchone", outcome |-> fetchone(name).outcome,
               value |-> fetchone(name).value]
    /\ UNCHANGED <<threads, dbPath, conn, txn, store, imp, exported>>

BeginTransaction ==
    /\ Becomes(begin_transaction)
    /\ ret' = [op |-> "begin_transaction", outcome |-> begin_transaction.outcome,
               value |-> None]
    /\ UNCHANGED <<threads, dbPath, conn, imp, exported>>

Commit ==
    /\ Becomes(commit)
    /\ ret' = [op |-> "commit", outcome |-> commit.outcome, value |-> None]
    /\ UNCHANGED <<threads, dbPath, conn, imp, exported>>

Rollback ==
    /\ Becomes(rollback)
    /\ ret' = [op |-> "rollback", outcome |-> rollback.outcome, value |-> None]
    /\ UNCHANGED <<threads, dbPath, conn, imp, exported>>

\* Database.close(): closes an open connection, what it had not committed is
\* lost; on a closed one it does nothing.
Close ==
    /\ IF conn = OPEN
       THEN /\ Becomes([tables |-> AfterClose, txn |-> None])
            /\ conn' = CLOSED
       ELSE UNCHANGED <<conn, txn, store>>
    /\ ret' = [op |-> "close", outcome |-> "ok", value |-> None]
    /\ UNCHANGED <<threads, dbPath, imp, exported>>

NextGateway ==
    \/ \E sql \in GatewayStatements : Execute(sql)
    \/ \E name \in Names : FetchAll(name)
    \/ \E name \in Names : FetchOne(name)
    \/ BeginTransaction
    \/ Commit
    \/ Rollback
    \/ Close

SpecGateway == Init /\ [][NextGateway]_vars

(***************************************************************************)
(* The managers and the import called by a client that also writes through *)
(* the gateway on the same connection: its statements and transactions     *)
(* interleave with the calls.  The client inserts profile B and begins     *)
(* transactions; the ledger holds at most one entry added by add_entry.    *)
(* An import into a database file is started when the client has no        *)
(* transaction open.                                                       *)
(***************************************************************************)
NextShared ==
    \/ /\ ~ImportRunning
       /\ \E sql \in {[stmt |-> INSERT, name |-> <<"B">>, id |-> 0],
                      [stmt |-> BEGIN, name |-> <<>>, id |-> 0]} : Execute(sql)
    \/ /\ ~ImportRunning
       /\ Commit
    \/ /\ ~ImportRunning
       /\ Rollback
    \/ /\ ~ImportRunning
       /\ CreateProfile(<<"A">>, <<>>)
    \/ /\ ~ImportRunning
       /\ UpdateProfile(1, Some(<<"B">>), None)
    \/ /\ ~ImportRunning
       /\ entrySeq = 0
       /\ \E profile_id \in ProfileIds, entry_type \in {INCOME, <<"Other">>} :
             AddEntryCall(profile_id, D1, entry_type, 5000, FOOD, None, None)
    \/ /\ ~ImportRunning
       /\ DeleteEntry(1)
    \/ /\ ~ImportRunning
       /\ categorySeq = 0
       /\ AddCategory(FOOD, None)
    \/ /\ dbPath = MEMORY \/ txn = None
       /\ \E file \in {FileOk, FileGbk} : ImportValidate(1, file)
    \/ ImportOpen
    \/ ImportRow
    \/ ImportCommit

SpecShared == Init /\ [][NextShared]_vars

(***************************************************************************)
(* Properties of the ledger, the registry and the import (Spec).           *)
(***************************************************************************)

\* C1: in every state reached by add, update, delete and CSV import, every
\* persisted entry has an amount >= 0, a type that is Income or Expense, and
\* a category that is not empty after trimming.
C1_EntriesValid ==
    \A e \in entries :
        /\ e.amount >= 0
        /\ e.type \in {INCOME, EXPENSE}
        /\ strip(e.category) /= <<>>

\* C1, reached: entries are persisted and an update that breaks a rule has
\* just been refused.
C1_Reached ==
    /\ entries /= {}
    /\ ret.op = "update_entry"
    /\ ret.outcome = "ValueError"

\* The arguments C2 is about: a type other than Income and Expense, a
\* negative amount, or a category that is empty after trimming.
InvalidAdd(a) ==
    \/ a.entry_type \notin {INCOME, EXPENSE}
    \/ a.amount < 0
    \/ strip(a.category) = <<>>

\* C2: in every state and for every profile, add called with a type other
\* than Income/Expense, with a negative amount, or with a category that is
\* empty after trimming fails with a ValidationError (ValueError) and
\* leaves the persisted entries exactly as they were: no row is persisted.
C2_AddRejected ==
    \A profile_id \in ProfileIds, a \in AddInputs :
        InvalidAdd(a) =>
            LET r == add_entry(profile_id, D1, a.entry_type, a.amount, a.category,
                               None, None)
            IN  /\ r.outcome = "ValueError"
                /\ r.entries = entries
                /\ r.entrySeq = entrySeq

\* C2, reached: an add has just failed with ValueError while entries are
\* persisted.
C2_Reached ==
    /\ ret.op = "add_entry"
    /\ ret.outcome = "ValueError"
    /\ Cardinality(entries) = 2

\* C3: deleting a profile P removes every entry whose profile_id is P.id and
\* leaves the entries of every other profile as they were.
C3_DeleteIsolation ==
    [][\A P \in profiles :
          P \notin profiles' =>
              entries' = {e \in entries : e.profile_id /= P.id}]_vars

\* C3, reached: a profile that had an entry has just been deleted, and an
\* entry of another profile is still there.
C3_Reached ==
    /\ ret.op = "delete_profile"
    /\ ret.value = Some(TRUE)
    /\ entries /= {}
    /\ Cardinality(entries) < entrySeq
    /\ Cardinality(profiles) < profileSeq

\* C4: in every state reached by profile create/delete, entry
\* add/update/delete and CSV import, the profile_id of every persisted entry
\* is the id of an existing profile.
C4_ReferentialIntegrity ==
    \A e \in entries : \E p \in profiles : p.id = e.profile_id

\* C4, reached: an import of a valid file into a profile that does not exist
\* has returned, having persisted no row, while another profile exists.
C4_Reached ==
    /\ ret.op = "import_from_csv"
    /\ ret.outcome = "ok"
    /\ ret.args.file = FileOk
    /\ get_profile(ret.args.profile_id) = None
    /\ Get(ret.value)[1] = 0
    /\ Len(Get(ret.value)[2]) = 2
    /\ profiles /= {}

(***************************************************************************)
(* Properties of the queries (SpecQuery).                                  *)
(***************************************************************************)
\* A filter field is set when it holds a value: get_entries and
\* get_statistics take None and the empty string as unset.
IsSet(o) == o /= None /\ Get(o) /= <<>>

\* The field of the filters a query was called with; None without filters.
Asked(field) ==
    IF ret.args.filters = None THEN None ELSE Get(ret.args.filters)[field]

\* The persisted entries of the queried profile that satisfy every set
\* clause of the filters, dates compared as calendar dates.
Matching ==
    {e \in entries :
        /\ e.profile_id = ret.args.profile_id
        /\ IsSet(Asked("start_date")) =>
               ~DateLess(fromisoformat(e.date), Get(Asked("start_date")))
        /\ IsSet(Asked("end_date")) =>
               ~DateLess(Get(Asked("end_date")), fromisoformat(e.date))
        /\ IsSet(Asked("entry_type")) => e.type = Get(Asked("entry_type"))
        /\ IsSet(Asked("category")) => e.category = Get(Asked("category"))}

\* C5: list returns the entries ordered by date descending and, for equal
\* dates, by id descending; when filters.entry_type is set, every returned
\* entry has exactly that type.
C5_ListOrdered ==
    ret.op = "get_entries" =>
        LET r == Get(ret.value) IN
        /\ \A i \in 1..Len(r), j \in 1..Len(r) :
               i < j => \/ DateLess(r[j].date, r[i].date)
                        \/ (r[i].date = r[j].date /\ r[i].id > r[j].id)
        /\ IsSet(Asked("entry_type")) =>
               \A i \in 1..Len(r) : r[i].type = Get(Asked("entry_type"))

\* C5, reached: a list filtered by type has returned two entries, the one
\* inserted first with the later date.
C5_Reached ==
    /\ ret.op = "get_entries"
    /\ IsSet(Asked("entry_type"))
    /\ Len(Get(ret.value)) = 2
    /\ Get(ret.value)[1].id < Get(ret.value)[2].id
    /\ DateLess(Get(ret.value)[2].date, Get(ret.value)[1].date)

\* C6: for every combination of set and unset filter fields, list returns
\* exactly the persisted entries of that profile that satisfy all the set
\* clauses (date >= start, date <= end, type = T, category = C), each once,
\* and no entry of another profile; an unset field restricts nothing.
C6_ListExact ==
    ret.op = "get_entries" =>
        LET r == Get(ret.value) IN
        /\ {r[i] : i \in 1..Len(r)} = {EntryOf(e) : e \in Matching}
        /\ Len(r) = Cardinality(Matching)

\* C6, reached: a list with all four fields set has returned one of the two
\* persisted entries.
C6_Reached ==
    /\ ret.op = "get_entries"
    /\ IsSet(Asked("start_date"))
    /\ IsSet(Asked("end_date"))
    /\ IsSet(Asked("entry_type"))
    /\ IsSet(Asked("category"))
    /\ Len(Get(ret.value)) = 1
    /\ Cardinality(entries) = 2

\* The sum of the amounts of a set of rows.
RECURSIVE TotalAmount(_)
TotalAmount(rows) ==
    IF rows = {} THEN 0
    ELSE LET r == CHOOSE x \in rows : TRUE
         IN  r.amount + TotalAmount(rows \ {r})

\* C7: for every profile and every filter combination, getStatistics returns
\* total_income and total_expense equal to the sums of the amounts of the
\* matching Income and Expense entries, balance = total_income -
\* total_expense, and count = the number of matching Income entries plus the
\* number of matching Expense entries.
C7_Statistics ==
    ret.op = "get_statistics" =>
        LET st == Get(ret.value)
            income == {e \in Matching : e.type = INCOME}
            expense == {e \in Matching : e.type = EXPENSE}
        IN  /\ st.total_income = TotalAmount(income)
            /\ st.total_expense = TotalAmount(expense)
            /\ st.balance = st.total_income - st.total_expense
            /\ st.count = Cardinality(income) + Cardinality(expense)

\* C7, reached: statistics over one Income and one Expense entry, the
\* expense the larger.
C7_Reached ==
    /\ ret.op = "get_statistics"
    /\ Get(ret.value).count = 2
    /\ Get(ret.value).total_income > 0
    /\ Get(ret.value).balance < 0

(***************************************************************************)
(* Properties of export and re-import (SpecCsv).                           *)
(***************************************************************************)
\* The (date, type, amount, category, subcategory, note) tuples of a profile.
EntryTuples(profile_id) ==
    {<<fromisoformat(e.date), e.type, e.amount, e.category, e.subcategory, e.note>> :
        e \in {x \in entries : x.profile_id = profile_id}}

\* C8: once the CSV exported from a profile has been imported into a profile
\* that had no entry, the importing profile holds the same (date, type,
\* amount, category, subcategory, note) tuples as the exported one.
C8_RoundTrip ==
    (/\ ret.op = "import_from_csv"
     /\ ret.outcome = "ok"
     /\ exported /= None
     /\ ret.args.file = Get(exported).file) =>
        EntryTuples(ret.args.profile_id) = EntryTuples(Get(exported).profile_id)

(***************************************************************************)
(* Properties of the import (Spec).                                        *)
(***************************************************************************)
\* The header of the file is read and holds every required column.
HeaderValid(file) ==
    /\ file.enc \in {"utf-8", "utf-8-sig"}
    /\ fieldnames(file) /= None
    /\ MissingHeaders(Get(fieldnames(file))) = <<>>

\* The data rows of the file that pass, and that fail, the row validation.
ValidRows(file) ==
    {k \in 1..Len(DataRows(file)) :
        /\ ~RowRaises(Get(fieldnames(file)), DataRows(file)[k])
        /\ _validate_row(Get(fieldnames(file)), DataRows(file)[k], k + 1) = <<>>}

InvalidRows(file) == (1..Len(DataRows(file))) \ ValidRows(file)

\* C9: an import, into an existing profile, of a CSV with a valid header in
\* which some data rows are valid and others are not returns importedCount
\* equal to the number of valid rows and one line-numbered error per invalid
\* row, and the valid rows are persisted in the profile.
C9_PartialImport ==
    (/\ ret.op = "import_from_csv"
     /\ ret.outcome = "ok"
     /\ get_profile(ret.args.profile_id) /= None
     /\ HeaderValid(ret.args.file)
     /\ ValidRows(ret.args.file) /= {}
     /\ InvalidRows(ret.args.file) /= {}) =>
        LET imported_count == Get(ret.value)[1]
            errors == Get(ret.value)[2]
        IN  /\ imported_count = Cardinality(ValidRows(ret.args.file))
            /\ Len(errors) = Cardinality(InvalidRows(ret.args.file))
            /\ {errors[i].line : i \in 1..Len(errors)} =
                   {k + 1 : k \in InvalidRows(ret.args.file)}
            /\ get_entry_count(ret.args.profile_id) >=
                   Cardinality(ValidRows(ret.args.file))

C11_AddCategoryUnique ==
    [][\A c \in CategoryInputs :
          (ret'.op = "add_category" /\ AddCategory(c.name, c.parent)) =>
              IF \E r \in categories : r.name = c.name /\ r.parent = c.parent
              THEN /\ ret'.outcome = "ValueError"
                   /\ categories' = categories
                   /\ categorySeq' = categorySeq
              ELSE /\ ret'.outcome = "ok"
                   /\ categories' = categories \cup
                          {[id |-> categorySeq + 1, name |-> c.name,
                            parent |-> c.parent]}]_vars

\* C11, reached: Food exists at top level and under Life, and an add has
\* just been refused as a duplicate.
C11_Reached ==
    /\ ret.op = "add_category"
    /\ ret.outcome = "ValueError"
    /\ \E a, b \in categories :
          /\ a.name = FOOD /\ a.parent = None
          /\ b.name = FOOD /\ b.parent = Some(<<"Life">>)

\* C12: in every state reached by the seeding, add, delete and the import,
\* no two category rows have the same (name, parent) pair, two top-level
\* rows of the same name counting as the same pair.
C12_CategoryUnique ==
    \A a, b \in categories : (a.name = b.name /\ a.parent = b.parent) => a = b

\* C13: a call of init_default_categories that immediately follows another
\* leaves the category rows exactly as they were after the first.
C13_SeedingIdempotent ==
    [][(/\ ret.op = "init_default_categories"
        /\ ret'.op = "init_default_categories"
        /\ InitDefaultCategories) => categories' = categories]_vars

(***************************************************************************)
(* Properties of the ledger under update (SpecLedger).                     *)
(***************************************************************************)
\* C14: update_entry of an entry, called with no field supplied, returns
\* True and leaves every field of that entry, and every other entry, as it
\* was.
C14_UpdateNoFields ==
    [][\A e \in entries :
          (/\ ret'.op = "update_entry"
           /\ UpdateEntry(e.id, None, None, None, None, None, None)) =>
              /\ ret'.outcome = "ok"
              /\ ret'.value = Some(TRUE)
              /\ entries' = entries]_vars

\* C14, reached: update_entry has returned True and the only entry there
\* ever was is still as add_entry stored it.  Every update of this
\* specification that supplies a valid field changes that entry for good, so
\* the call supplied none.
C14_Reached ==
    /\ ret.op = "update_entry"
    /\ ret.value = Some(TRUE)
    /\ entrySeq = 1
    /\ entries = {[id |-> 1, profile_id |-> 1, date |-> isoformat(D2),
                   type |-> EXPENSE, amount |-> 125, category |-> RENT,
                   subcategory |-> Some(<<"lunch">>), note |-> Some(<<"n">>)]}

\* An optional string of a row read as a string: NULL as the empty string.
OptText(o) == IF o = None THEN <<>> ELSE Get(o)

\* C15: an update_entry that returns True for an existing entry sets exactly
\* the supplied fields of that entry to the supplied values, trimmed; its
\* id, its profile_id and every field not supplied keep their values, and no
\* other entry changes.
C15_UpdateSuppliedOnly ==
    [][\A e \in entries, u \in EntryUpdateInputs :
          (/\ ret'.op = "update_entry"
           /\ UpdateEntry(e.id, u.entry_date, u.entry_type, u.amount, u.category,
                          u.subcategory, u.note)
           /\ ret'.outcome = "ok"
           /\ ret'.value = Some(TRUE)) =>
              /\ \E n \in entries' : n.id = e.id
              /\ LET n == CHOOSE x \in entries' : x.id = e.id IN
                 /\ n.profile_id = e.profile_id
                 /\ IF u.entry_date /= None
                    THEN fromisoformat(n.date) = Get(u.entry_date)
                    ELSE n.date = e.date
                 /\ n.type = IF u.entry_type /= None THEN Get(u.entry_type) ELSE e.type
                 /\ n.amount = IF u.amount /= None THEN Get(u.amount) ELSE e.amount
                 /\ n.category = IF u.category /= None THEN strip(Get(u.category))
                                 ELSE e.category
                 /\ IF u.subcategory /= None
                    THEN OptText(n.subcategory) = strip(Get(u.subcategory))
                    ELSE n.subcategory = e.subcategory
                 /\ IF u.note /= None
                    THEN OptText(n.note) = strip(Get(u.note))
                    ELSE n.note = e.note
                 /\ entries' \ {n} = entries \ {e}]_vars

\* C15, reached: the entry stored with a subcategory and a note has been
\* updated with an amount and a note to trim; its other fields are as stored.
C15_Reached ==
    /\ ret.op = "update_entry"
    /\ ret.value = Some(TRUE)
    /\ [id |-> 1, profile_id |-> 1, date |-> isoformat(D2), type |-> EXPENSE,
        amount |-> 2000, category |-> RENT, subcategory |-> Some(<<"lunch">>),
        note |-> Some(<<"n2">>)] \in entries

(***************************************************************************)
(* Properties of the registry under update (SpecRegistry).                 *)
(***************************************************************************)
\* The call returned False, without raising, and changed no table.
ReturnsFalse ==
    /\ ret'.outcome = "ok"
    /\ ret'.value = Some(FALSE)
    /\ UNCHANGED store

\* The call returned True and changed no table.
ReturnsTrue ==
    /\ ret'.outcome = "ok"
    /\ ret'.value = Some(TRUE)
    /\ UNCHANGED store

\* The call raised ValueError and changed no table.
RaisesValueError ==
    /\ ret'.outcome = "ValueError"
    /\ UNCHANGED store

\* A field of the update of an entry is not valid.
InvalidUpdate(u) ==
    \/ u.entry_type /= None /\ Get(u.entry_type) \notin {INCOME, EXPENSE}
    \/ u.amount /= None /\ Get(u.amount) < 0
    \/ u.category /= None /\ strip(Get(u.category)) = <<>>

\* The update of an entry supplies no field.
NoEntryField(u) ==
    /\ u.entry_date = None /\ u.entry_type = None /\ u.amount = None
    /\ u.category = None /\ u.subcategory = None /\ u.note = None

\* The update of a profile supplies nothing: no name, or an empty one, and
\* no description.
NoProfileField(u) == ~Truthy(u.name) /\ u.description = None

\* C16, as stated: every delete and update (profile delete and update,
\* category delete, entry delete and update) called with an id that does not
\* exist returns False, does not raise and leaves the store unchanged,
\* whatever fields are supplied.
C16_MissingIdFalse ==
    [][/\ \A profile_id \in ProfileIds :
             get_profile(profile_id) = None =>
                 /\ (ret'.op = "delete_profile" /\ DeleteProfile(profile_id)) =>
                        ReturnsFalse
                 /\ \A u \in ProfileUpdateInputs :
                       (/\ ret'.op = "update_profile"
                        /\ UpdateProfile(profile_id, u.name, u.description)) =>
                           ReturnsFalse
       /\ \A category_id \in CategoryIds :
             (~\E c \in categories : c.id = category_id) =>
                 ((ret'.op = "delete_category" /\ DeleteCategory(category_id)) =>
                      ReturnsFalse)
       /\ \A entry_id \in EntryIds :
             get_entry(entry_id) = None =>
                 /\ (ret'.op = "delete_entry" /\ DeleteEntry(entry_id)) => ReturnsFalse
                 /\ \A u \in EntryUpdateInputs :
                       (/\ ret'.op = "update_entry"
                        /\ UpdateEntry(entry_id, u.entry_date, u.entry_type, u.amount,
                                       u.category, u.subcategory, u.note)) =>
                           ReturnsFalse]_vars

\* C16, amended: called with an id that does not exist, every delete, and
\* every update that supplies at least one field and no invalid one, returns
\* False without raising; an update that supplies no field returns True; an
\* update of an entry with an invalid field raises ValueError.  In every
\* case the store is unchanged.
C16_MissingId ==
    [][/\ \A profile_id \in ProfileIds :
             get_profile(profile_id) = None =>
                 /\ (ret'.op = "delete_profile" /\ DeleteProfile(profile_id)) =>
                        ReturnsFalse
                 /\ \A u \in ProfileUpdateInputs :
                       (/\ ret'.op = "update_profile"
                        /\ UpdateProfile(profile_id, u.name, u.description)) =>
                           IF NoProfileField(u) THEN ReturnsTrue ELSE ReturnsFalse
       /\ \A category_id \in CategoryIds :
             (~\E c \in categories : c.id = category_id) =>
                 ((ret'.op = "delete_category" /\ DeleteCategory(category_id)) =>
                      ReturnsFalse)
       /\ \A entry_id \in EntryIds :
             get_entry(entry_id) = None =>
                 /\ (ret'.op = "delete_entry" /\ DeleteEntry(entry_id)) => ReturnsFalse
                 /\ \A u \in EntryUpdateInputs :
                       (/\ ret'.op = "update_entry"
                        /\ UpdateEntry(entry_id, u.entry_date, u.entry_type, u.amount,
                                       u.category, u.subcategory, u.note)) =>
                           IF InvalidUpdate(u) THEN RaisesValueError
                           ELSE IF NoEntryField(u) THEN ReturnsTrue
                           ELSE ReturnsFalse]_vars

\* C16, reached: update_entry has returned False, which it does only for an
\* id that meets no row, while a profile, an entry and a category exist.
C16_Reached ==
    /\ ret.op = "update_entry"
    /\ ret.value = Some(FALSE)
    /\ profiles /= {}
    /\ entries /= {}
    /\ categories /= {}

\* C17: over create, update and delete of profiles no two profiles ever have
\* the same name, and create_profile with the name of an existing profile
\* raises ValueError (the DuplicateNameError) and leaves the profiles as
\* they were.
C17_NamesUnique ==
    [][/\ \A p, q \in profiles' : p.name = q.name => p = q
       /\ \A name \in Names :
             (/\ ret'.op = "create_profile"
              /\ CreateProfile(name, <<>>)
              /\ \E p \in profiles : p.name = name) =>
                 /\ ret'.outcome = "ValueError"
                 /\ profiles' = profiles
                 /\ profileSeq' = profileSeq]_vars

\* C17, reached: create_profile has been refused while two profiles exist,
\* one of them renamed by update_profile.
C17_Reached ==
    /\ ret.op = "create_profile"
    /\ ret.outcome = "ValueError"
    /\ Cardinality(profiles) = 2
    /\ \E p \in profiles : p.description = <<"e">>

\* C18: update_profile(id, name) with the name of a different existing
\* profile returns False without raising, and leaves the name and the
\* description of both profiles as they were, a description supplied in the
\* same call included.
C18_UpdateNameCollision ==
    [][\A profile_id \in ProfileIds, u \in ProfileUpdateInputs :
          (/\ ret'.op = "update_profile"
           /\ UpdateProfile(profile_id, u.name, u.description)
           /\ get_profile(profile_id) /= None
           /\ Truthy(u.name)
           /\ \E p \in profiles : p.id /= profile_id /\ p.name = Get(u.name)) =>
              /\ ret'.outcome = "ok"
              /\ ret'.value = Some(FALSE)
              /\ profiles' = profiles]_vars

\* C18, reached: update_profile has returned False while both ids are those
\* of profiles, so the id met a row and the name, supplied with a
\* description, was the name of the other profile.
C18_Reached ==
    /\ ret.op = "update_profile"
    /\ ret.value = Some(FALSE)
    /\ {p.id : p \in profiles} = ProfileIds

(***************************************************************************)
(* Properties of the storage gateway (SpecGateway).                        *)
(***************************************************************************)
GatewayOps ==
    {"execute", "fetchall", "fetchone", "begin_transaction", "commit", "rollback"}

\* C19: every operation of the gateway (execute, fetchall, fetchone,
\* begin_transaction, commit, rollback) called after the connection was
\* closed fails with the connectivity error, RuntimeError; none returns as
\* if it had done its work.
C19_ClosedFails ==
    (conn = CLOSED /\ ret.op \in GatewayOps) => ret.outcome = "RuntimeError"

(***************************************************************************)
(* Properties of the import that fails while it runs (SpecImport).         *)
(***************************************************************************)
\* C20: an import is one transaction: when reading the file raises after
\* some of its rows were inserted, the import is rolled back and reads no
\* further row, so that none of the rows it inserted (the last
\* imported_count ids of the table) is in entries when it returns.
C20_AbortRollsBack ==
    [][(ret'.op = "import_from_csv" /\ imp.phase = "Importing" /\ ImportAbort) =>
          /\ imp'.phase = "Completed"
          /\ ~\E e \in entries' : e.id > entrySeq - imp.imported_count]_vars

\* The entries the running import has inserted: the last imported_count ids.
ImportedSoFar == {e \in entries : e.id > entrySeq - imp.imported_count}

\* C21: in the row loop of an import a row that fails adds one error with
\* its line number and the loop goes on with the next row; the failure
\* removes no entry, so the rows the import inserted before it are all in
\* entries when the import returns.
C21_RowFailureKeepsRows ==
    [][/\ (imp.phase = "Importing" /\ imp'.phase = "Importing") =>
              /\ imp'.line_num = imp.line_num + 1
              /\ entries \subseteq entries'
              /\ \/ /\ imp'.imported_count = imp.imported_count + 1
                    /\ imp'.errors = imp.errors
                    /\ Cardinality(entries') = Cardinality(entries) + 1
                 \/ /\ imp'.imported_count = imp.imported_count
                    /\ imp'.errors = Append(imp.errors, Err(imp.line_num, "import_failed"))
                    /\ entries' = entries
       /\ (imp.phase = "Importing" /\ imp'.phase = "Completed") =>
              /\ entries' = entries
              /\ Cardinality(ImportedSoFar) = imp.imported_count
              /\ \A e \in ImportedSoFar : e.profile_id = imp.profile_id]_vars

\* C21, reached: the import of the file whose second row fails has returned
\* one imported row and the error of line 3, and the row is in entries.
C21_Reached ==
    /\ ret.op = "import_from_csv"
    /\ ret.outcome = "ok"
    /\ ret.args.file = FileShortLast
    /\ ret.value = Some(<<1, <<Err(3, "import_failed")>> >>)
    /\ \E e \in entries : e.id = entrySeq /\ e.profile_id = ret.args.profile_id

CellText(names, cells, key) ==
    IF RowGet(names, cells, key) = None THEN <<>>
    ELSE strip(Get(RowGet(names, cells, key)))

\* One error for each check the row of line line_num fails, in the order of
\* the checks.
RowErrors(names, cells, line_num) ==
    (IF _validate_date(CellText(names, cells, H_DATE)) THEN <<>>
     ELSE <<Err(line_num, "date")>>)
    \o (IF _validate_type(CellText(names, cells, H_TYPE)) THEN <<>>
        ELSE <<Err(line_num, "type")>>)
    \o (IF _validate_amount(CellText(names, cells, H_AMOUNT)) THEN <<>>
        ELSE <<Err(line_num, "amount")>>)
    \o (IF CellText(names, cells, H_CATEGORY) /= <<>> THEN <<>>
        ELSE <<Err(line_num, "category")>>)

\* The errors of every data row, each row checked on its own.
RECURSIVE AllRowErrors(_, _, _)
AllRowErrors(names, rows, k) ==
    IF k > Len(rows) THEN <<>>
    ELSE RowErrors(names, rows[k], k + 1) \o AllRowErrors(names, rows, k + 1)

\* C24: validate_csv of a file with the required header and at least one
\* data row returns one error for each check (date, type, amount, category)
\* a row fails, every row checked whatever the rows before it, each error
\* with the line number of its row (2 for the first); it returns ok exactly
\* when there is no such error.
C24_ValidateCollectsAll ==
    (/\ ret.op = "validate_csv"
     /\ HeaderValid(ret.args.file)
     /\ DataRows(ret.args.file) /= <<>>) =>
        LET errors == AllRowErrors(Get(fieldnames(ret.args.file)),
                                   DataRows(ret.args.file), 1)
        IN  ret.value = Some(<<errors = <<>>, errors>>)

(***************************************************************************)
(* Properties of the mutations under a failing storage (SpecFailure).      *)
(***************************************************************************)
\* A step in which the statement of a mutation raised.
StorageFailed ==
    \/ /\ ret'.op = "create_profile"
       /\ \E name \in Names : CreateProfileDbError(name, <<>>)
    \/ /\ ret'.op = "update_profile"
       /\ \E profile_id \in ProfileIds, u \in ProfileUpdateInputs :
             UpdateProfileDbError(profile_id, u.name, u.description)
    \/ /\ ret'.op = "delete_profile"
       /\ \E profile_id \in ProfileIds : DeleteProfileDbError(profile_id)
    \/ /\ ret'.op = "add_entry"
       /\ \E profile_id \in ProfileIds :
             AddEntryDbError(profile_id, D1, INCOME, 5000, FOOD, None, None)
    \/ /\ ret'.op = "update_entry"
       /\ \E entry_id \in EntryIds, u \in EntryUpdateInputs :
             UpdateEntryDbError(entry_id, u.entry_date, u.entry_type, u.amount,
                                u.category, u.subcategory, u.note)
    \/ /\ ret'.op = "delete_entry"
       /\ \E entry_id \in EntryIds : DeleteEntryDbError(entry_id)
    \/ /\ ret'.op = "add_category"
       /\ \E name \in {FOOD, <<"rent">>} : AddCategoryDbError(name, None)
    \/ /\ ret'.op = "delete_category"
       /\ \E category_id \in CategoryIds : DeleteCategoryDbError(category_id)

\* C25: when the storage fails during a mutation of the registry, the
\* catalog or the ledger (create or add, update, delete), the transaction is
\* rolled back, nothing is written, and the call raises the failure with the
\* context of its operation: it does not return a value in its place.
C25_FailureReRaised ==
    [][StorageFailed =>
          /\ txn' = None
          /\ store' = store
          /\ ret'.outcome = "RuntimeError"]_vars

(***************************************************************************)
(* Properties of the transactions (SpecShared).                            *)
(***************************************************************************)
\* The operations of the registry, the catalog and the ledger that write.
ManagerOps ==
    {"create_profile", "update_profile", "delete_profile", "add_entry",
     "update_entry", "delete_entry", "add_category", "delete_category"}

\* A step in which a call of a manager returns or raises.
ManagerReturns == ret'.op \in ManagerOps

\* A step in which import_from_csv returns.
ImportReturns ==
    /\ ret'.op = "import_from_csv"
    /\ ret'.outcome = "ok"
    /\ imp'.phase \in {"Invalid", "Completed"}
    /\ imp.phase \in {"Idle", "Invalid", "Completed", "Valid", "Importing"}
    /\ imp' /= imp \/ imp.phase = "Invalid"

\* C26 as stated: after a public operation of the registry, the catalog, the
\* ledger or the import returns or raises, the transaction it worked in is
\* ended, and a transaction the caller had open on the connection is neither
\* committed nor rolled back by the operation: it is still open, with the
\* same changes to undo.
C26_OwnChangesOnly ==
    [][(ManagerReturns \/ ImportReturns) =>
          /\ txn = None => txn' = None
          /\ (txn /= None /\ imp.phase /= "Importing") => txn' = txn]_vars

\* C26, amended: a public operation called when no transaction is open on
\* its connection leaves none open when it returns or raises.  Called when
\* the caller has a transaction open, a manager operation either commits
\* the caller's changes with its own, or rolls back the caller's changes, or
\* (when it raises or returns before its statement) leaves the transaction
\* as it was; an import on the same connection rolls the caller's changes
\* back, or leaves the transaction as it was when the file is invalid.
C26_Settled ==
    [][/\ ManagerReturns =>
             /\ txn = None => txn' = None
             /\ txn /= None =>
                    \/ txn' = None
                    \/ txn' = txn /\ store' = store
       /\ ImportReturns =>
             \/ txn' = None
             \/ /\ imp'.phase = "Invalid"
                /\ txn' = txn /\ store' = store]_vars

\* An import that found a transaction of the caller open on the in-memory
\* connection: BEGIN raised, the caller's changes were rolled back.
C26_Reached ==
    /\ dbPath = MEMORY
    /\ ret.op = "import_from_csv"
    /\ ret.outcome = "ok"
    /\ ret.value = Some(<<0, <<Err(0, "import_aborted")>> >>)
    /\ txn = None

(***************************************************************************)
(* Properties of the optional texts (SpecOptional).                        *)
(***************************************************************************)
\* A stored optional text that is null, or not empty and without spaces at
\* either end.
NullOrTrimmedText(o) == o = None \/ (Get(o) /= <<>> /\ strip(Get(o)) = Get(o))

\* C27: after any add or update of the ledger, the stored subcategory and
\* the stored note of every entry are null or a non-empty text without
\* leading or trailing whitespace: an optional text that is empty, or empty
\* once trimmed, is stored as null.
C27_OptionalNullOrTrimmed ==
    \A e \in entries :
        NullOrTrimmedText(e.subcategory) /\ NullOrTrimmedText(e.note)

(***************************************************************************)
(* Properties of the taxonomy (SpecTaxonomy).                              *)
(***************************************************************************)
\* The top-level names the seeding inserts: those of income_categories and
\* the keys of expense_categories.
SeededTopLevel ==
    {<<income_categories[i]>> : i \in 1..Len(income_categories)}
    \cup {<<expense_categories[i][1]>> : i \in 1..Len(expense_categories)}

\* C28: the top-level names of Income and of Expense are disjoint: no name
\* is a key of get_categories_by_type for both types; and the seeding of an
\* empty catalog inserts each top-level name once.
C28_TopLevelDisjoint ==
    /\ ret.op = "get_categories_by_type" =>
           DOMAIN get_categories_by_type(INCOME)
               \cap DOMAIN get_categories_by_type(EXPENSE) = {}
    /\ (ret.op = "init_default_categories" /\ categorySeq = Len(DefaultCategoryRows)) =>
           \A name \in SeededTopLevel :
               Cardinality({c \in categories :
                               c.name = name /\ c.parent = None}) = 1

(***************************************************************************)
(* Properties of the counts of the import (SpecImport).                    *)
(***************************************************************************)
\* C29: an import whose file passed the validation and whose row loop ran to
\* its end returns imported_count and the row errors, one or the other for
\* each data row of the file: their numbers add up to the number of data
\* rows; and the entries of the target profile grow by imported_count.  The
\* count starts at 0 with the entries as they were, each pass of the loop
\* adds to the profile's entries what it adds to the count and accounts for
\* one more row, and the return adds nothing.
C29_ImportCounts ==
    [][/\ (imp.phase = "Valid" /\ imp'.phase = "Importing") =>
              /\ imp'.imported_count = 0
              /\ imp'.errors = <<>>
              /\ entries' = entries
       /\ (imp.phase = "Importing" /\ imp'.phase = "Importing") =>
              /\ Cardinality({e \in entries' : e.profile_id = imp.profile_id})
                     = get_entry_count(imp.profile_id)
                       + (imp'.imported_count - imp.imported_count)
              /\ imp'.imported_count + Len(imp'.errors) = imp'.line_num - 2
       /\ (/\ imp.phase = "Importing"
           /\ imp'.phase = "Completed"
           /\ ret'.value = Some(<<imp.imported_count, imp.errors>>)) =>
              /\ imp.imported_count + Len(imp.errors) = Len(DataRows(imp.file))
              /\ entries' = entries
              /\ Cardinality({e \in entries : e.profile_id = imp.profile_id
                                             /\ e.id > entrySeq - imp.imported_count})
                     = imp.imported_count]_vars

\* An import of the two rows of FileOk returned (2, []) and both are entries
\* of the profile.
C29_Reached ==
    /\ ret.op = "import_from_csv"
    /\ ret.outcome = "ok"
    /\ ret.args.file = FileOk
    /\ ret.value = Some(<<Len(DataRows(FileOk)), <<>> >>)
    /\ get_entry_count(ret.args.profile_id) >= Len(DataRows(FileOk))

\* C30: import_from_csv only adds entries of the profile it is called for:
\* in every step of an import, whatever its outcome and the kind of store,
\* the profiles and the categories stay as they are, no entry is removed or
\* changed, and every entry added belongs to the target profile.
C30_ImportFrame ==
    [][imp' /= imp =>
          /\ profiles' = profiles
          /\ categories' = categories
          /\ entries \subseteq entries'
          /\ \A e \in entries' \ entries : e.profile_id = imp.profile_id]_vars

(***************************************************************************)
(* Properties of the import in its worker thread (SpecConcurrent).         *)
(***************************************************************************)
\* The client's add_entry is held up: its INSERT waits for the lock.
ClientWaits == call.phase = "Waiting" /\ lock /= None

\* The import is between the INSERT of a row and the commit of that row.
ImportHoldsRow ==
    /\ lock /= None
    /\ Get(lock).holder = "import"
    /\ imp.phase = "Importing"
    /\ Get(lock).row \notin entries

====
